---------------------------- MODULE Spec2Model ----------------------------
(***************************************************************************)
(* Rubric evaluation engine of src/src/video_evaluator.py.                 *)
(*                                                                         *)
(* One behaviour is one call of                                            *)
(* VideoEvaluator.evaluate_transcript_with_rubric(transcript, ...): the    *)
(* decomposition decision, one step per scoring call (the external scorer  *)
(* answers with an arbitrary response or fails), and the aggregation that  *)
(* builds the returned result or lets an exception escape.                 *)
(*                                                                         *)
(* Conventions.                                                            *)
(*  - A JSON number is a record [n, d] (the rational n/d, d > 0, lowest    *)
(*    terms); [n |-> 0, d |-> 0] stands for a JSON value that is not a     *)
(*    number (a string, null).  Python float arithmetic is modelled as     *)
(*    exact rational arithmetic.                                           *)
(*  - A Python string built by formatting is a sequence of tokens; string  *)
(*    concatenation is sequence concatenation, so "contains the text",     *)
(*    "equals the text" and "starts with" are decidable on the model.      *)
(*  - A dict is a function; a key that is absent is absent from DOMAIN.    *)
(*  - A transcript is a run-length encoded text: a sequence of runs        *)
(*    [ch, n]; characters are addressed from 0 as in Python.               *)
(***************************************************************************)
EXTENDS Integers, Sequences, FiniteSets, TLC

(***************************************************************************)
(* Numbers                                                                 *)
(***************************************************************************)
Abs(x) == IF x < 0 THEN -x ELSE x

RECURSIVE GCD(_, _)
GCD(a, b) == IF b = 0 THEN a ELSE GCD(b, a % b)

Rat(n, d) == LET g == GCD(Abs(n), d) IN [n |-> n \div g, d |-> d \div g]

IntNum(v) == [n |-> v, d |-> 1]

NonNumeric == [n |-> 0, d |-> 0]

IsNumeric(x) == x.d > 0

IsInt(x) == x.d = 1

NumAdd(x, y) == Rat(x.n * y.d + y.n * x.d, x.d * y.d)

NumGeq(x, y) == x.n * y.d >= y.n * x.d

NumMulInt(x, k) == Rat(x.n * k, x.d)

NumDivInt(x, k) == Rat(x.n, x.d * k)

\* Python round(x): nearest integer, a tie goes to the even neighbour.
PyRound(x) ==
    LET q == x.n \div x.d
        r == x.n - q * x.d
    IN  IF 2 * r < x.d THEN q
        ELSE IF 2 * r > x.d THEN q + 1
        ELSE IF q % 2 = 0 THEN q ELSE q + 1

\* Python round(x, 1): x rounded to one decimal.
PyRound1(x) == Rat(PyRound(Rat(10 * x.n, x.d)), 10)

RECURSIVE SumInts(_)
SumInts(s) == IF s = <<>> THEN 0 ELSE Head(s) + SumInts(Tail(s))

RECURSIVE SumNums(_)
SumNums(s) == IF s = <<>> THEN IntNum(0) ELSE NumAdd(Head(s), SumNums(Tail(s)))

RECURSIVE MaxInts(_)
MaxInts(s) ==
    IF Len(s) = 1 THEN Head(s)
    ELSE LET m == MaxInts(Tail(s)) IN IF Head(s) >= m THEN Head(s) ELSE m

Min2(a, b) == IF a <= b THEN a ELSE b

Max2(a, b) == IF a >= b THEN a ELSE b

Get(dict, key, default) == IF key \in DOMAIN dict THEN dict[key] ELSE default

Range(s) == {s[i] : i \in DOMAIN s}

(***************************************************************************)
(* Strings                                                                 *)
(***************************************************************************)
Marker == "Auto-generated conservative score"

NumStr(k) ==
    CASE k = 0 -> "0" [] k = 1 -> "1" [] k = 2 -> "2" [] k = 3 -> "3"
      [] k = 4 -> "4" [] OTHER -> "many"

\* A join that keeps only the last note.
JoinNotes_LastOnly(notes) ==
    IF notes = <<>> THEN <<>> ELSE notes[Len(notes)]

\* ' | '.join([note for note in notes if note])
RECURSIVE JoinNotes(_)
JoinNotes(notes) ==
    IF notes = <<>> THEN <<>>
    ELSE LET rest == JoinNotes(Tail(notes))
         IN  IF Head(notes) = <<>> THEN rest
             ELSE IF rest = <<>> THEN Head(notes)
             ELSE Head(notes) \o <<" | ">> \o rest

\* f"Aggregated from {len(scores)} chunks: {combined_notes}"
\* A prefix that counts the notes that are joined, not the scores.
AggregatedNote_CountsNotes(k, notes) ==
    <<"Aggregated from ", NumStr(Len(SelectSeq(notes, LAMBDA n : n # <<>>))),
      " chunks: ">> \o JoinNotes(notes)

AggregatedNote(k, notes) ==
    <<"Aggregated from ", NumStr(k), " chunks: ">> \o JoinNotes(notes)

Contains(note, text) == \E i \in DOMAIN note : note[i] = text


(***************************************************************************)
(* Text and the chunker                                                    *)
(***************************************************************************)
RunStart(text, k) == SumInts([j \in 1..(k - 1) |-> text[j].n])

TextLen(text) == SumInts([j \in 1..Len(text) |-> text[j].n])

RunOf(text, i) ==
    CHOOSE k \in 1..Len(text) :
        RunStart(text, k) <= i /\ i < RunStart(text, k) + text[k].n

CharAt(text, i) == text[RunOf(text, i)].ch

\* str.strip() removes these; '.!?\n' are the sentence ends of line 1104.
IsSpace(ch) == ch \in {" ", "\n"}

IsSentenceEnd(ch) == ch \in {".", "!", "?", "\n"}

\* Last index i in [lo, hi) with a sentence end, or -1 (lines 1102-1105).
RECURSIVE LastSentenceEnd(_, _, _)
LastSentenceEnd(text, lo, hi) ==
    IF hi <= lo THEN -1
    ELSE IF IsSentenceEnd(CharAt(text, hi - 1)) THEN hi - 1
    ELSE LastSentenceEnd(text, lo, RunStart(text, RunOf(text, hi - 1)))

\* First index in [lo, hi) that str.strip() keeps, or hi.
RECURSIVE FirstKept(_, _, _)
FirstKept(text, lo, hi) ==
    IF hi <= lo THEN hi
    ELSE IF ~IsSpace(CharAt(text, lo)) THEN lo
    ELSE LET k == RunOf(text, lo)
         IN  FirstKept(text, Min2(hi, RunStart(text, k) + text[k].n), hi)

\* One past the last index in [lo, hi) that str.strip() keeps, or lo.
RECURSIVE LastKept(_, _, _)
LastKept(text, lo, hi) ==
    IF hi <= lo THEN lo
    ELSE IF ~IsSpace(CharAt(text, hi - 1)) THEN hi
    ELSE LastKept(text, lo, Max2(lo, RunStart(text, RunOf(text, hi - 1))))

\* transcript[start:end].strip() as the range [lo, hi) of kept characters.
StripRange(text, start, end) ==
    LET e  == Min2(end, TextLen(text))
        lo == FirstKept(text, start, e)
    IN  [lo |-> lo, hi |-> IF lo >= e THEN lo ELSE LastKept(text, lo, e)]

LookBack == 200

\* end of the window that starts at start: start + chunk_size, moved back to
\* just after the last sentence end of the look-back region when the window
\* does not reach the end of the text (lines 1097-1112).
WindowEnd(text, chunk_size, start) ==
    IF start + chunk_size < TextLen(text)
          /\ LastSentenceEnd(text, Max2(start, start + chunk_size - LookBack),
                             start + chunk_size) >= 0
    THEN LastSentenceEnd(text, Max2(start, start + chunk_size - LookBack),
                         start + chunk_size) + 1
    ELSE start + chunk_size

\* start = end - overlap, without the max(start + 1, ...) of line 1119
NextStart_NoProgress(start, end, overlap) == end - overlap

\* the overlap added to end instead of subtracted from it
NextStart_Skip(start, end, overlap) == Max2(start + 1, end + overlap)

\* start = max(start + 1, end - overlap)
NextStart(start, end, overlap) == Max2(start + 1, end - overlap)

\* chunks after 'if chunk: chunks.append(chunk)'
AppendChunk(chunks, chunk) ==
    IF chunk.lo < chunk.hi THEN Append(chunks, chunk) ELSE chunks

\* The while loop of _chunk_transcript, lines 1096-1123.
RECURSIVE ChunkLoop(_, _, _, _, _)
ChunkLoop(text, chunk_size, overlap, start, chunks) ==
    IF ~(start < TextLen(text)) THEN chunks
    ELSE
      LET end  == WindowEnd(text, chunk_size, start)
          out  == AppendChunk(chunks, StripRange(text, start, end))
          next == NextStart(start, end, overlap)
      IN  IF next >= TextLen(text) THEN out
          ELSE ChunkLoop(text, chunk_size, overlap, next, out)

\* _chunk_transcript: the chunks as ranges [lo, hi) of the transcript.
chunk_transcript(text, chunk_size, overlap) ==
    IF TextLen(text) <= chunk_size
    THEN <<[lo |-> 0, hi |-> TextLen(text)]>>
    ELSE ChunkLoop(text, chunk_size, overlap, 0, <<>>)

ChunkSize == 8000

Overlap == 200

LengthThreshold == 4000

ComplexThreshold == 10

(***************************************************************************)
(* Rubrics (all accepted by validate_rubric) and transcripts               *)
(***************************************************************************)
Criterion(id, m) == [criterion_id |-> id, label |-> id, desc |-> id, max_points |-> m]

\* validate_rubric does not require 'desc' of a hierarchical criterion.
CriterionNoDesc(id, m) == [criterion_id |-> id, label |-> id, max_points |-> m]

Category(id, crits) ==
    [category_id |-> id, label |-> id,
     max_points |-> SumInts([i \in 1..Len(crits) |-> crits[i].max_points]),
     criteria |-> crits]

\* The categories share the weight equally, so that the weights sum to 1.
Weighted(cats) ==
    [i \in 1..Len(cats) |-> cats[i] @@ [weight |-> Rat(1, Len(cats))]]

Hierarchical(id, cats, pass, revise) ==
    [rubric_id |-> id, name |-> id, version |-> "1.0",
     categories |-> Weighted(cats),
     scale |-> [min |-> 0,
                max |-> SumInts([i \in 1..Len(cats) |-> cats[i].max_points])],
     thresholds |-> [pass |-> IntNum(pass), revise |-> IntNum(revise)]]

Flat(crits, pass, revise) ==
    [criteria |-> crits, scale |-> [min |-> 1, max |-> 10],
     overall_method |-> "weighted_mean",
     thresholds |-> [pass |-> pass, revise |-> revise]]

FlatCriterion(id, w) == [id |-> id, label |-> id, desc |-> id, weight |-> w]

\* 3 criteria, 15 points.
SmallRubric ==
    Hierarchical("small",
        << Category("A", <<Criterion("a1", 5), Criterion("a2", 3)>>),
           Category("B", <<Criterion("b1", 7)>>) >>, 11, 8)

\* The same criterion_id in two categories (unique within each category).
DupRubric ==
    Hierarchical("dup",
        << Category("A", <<Criterion("x", 5), Criterion("y", 3)>>),
           Category("B", <<Criterion("x", 7)>>) >>, 11, 8)

\* 15 criteria, 100 points.
BigRubric ==
    Hierarchical("big",
        << Category("A", <<Criterion("a1", 10), Criterion("a2", 5),
                           Criterion("a3", 7), Criterion("a4", 8),
                           Criterion("a5", 10), Criterion("a6", 6),
                           Criterion("a7", 6), Criterion("a8", 8)>>),
           Category("B", <<Criterion("b1", 4), Criterion("b2", 9),
                           Criterion("b3", 2), Criterion("b4", 7),
                           Criterion("b5", 8), Criterion("b6", 6),
                           Criterion("b7", 4)>>) >>, 70, 50)

\* 11 criteria, 65 points; the criteria of category B carry no 'desc'.
NoDescRubric ==
    Hierarchical("nodesc",
        << Category("A", <<Criterion("a1", 5), Criterion("a2", 5),
                           Criterion("a3", 5), Criterion("a4", 5),
                           Criterion("a5", 5), Criterion("a6", 5)>>),
           Category("B", <<CriterionNoDesc("b1", 7), CriterionNoDesc("b2", 7),
                           CriterionNoDesc("b3", 7), CriterionNoDesc("b4", 7),
                           CriterionNoDesc("b5", 7)>>) >>, 45, 30)

\* 10 criteria, 40 points: the largest rubric that is not decomposed.
TenRubric ==
    Hierarchical("ten",
        << Category("A", <<Criterion("a1", 4), Criterion("a2", 4),
                           Criterion("a3", 4), Criterion("a4", 4),
                           Criterion("a5", 4)>>),
           Category("B", <<Criterion("b1", 4), Criterion("b2", 4),
                           Criterion("b3", 4), Criterion("b4", 4),
                           Criterion("b5", 4)>>) >>, 28, 20)

\* The flat rubric of the spec's scenario: pass 6.5, revise 5.0.
FlatRubric ==
    Flat(<<FlatCriterion("a", Rat(1, 2)), FlatCriterion("b", Rat(1, 2))>>,
         Rat(13, 2), IntNum(5))

FlatRubric3 ==
    Flat(<<FlatCriterion("a", Rat(3, 10)), FlatCriterion("b", Rat(1, 4)),
           FlatCriterion("c", Rat(9, 20))>>, Rat(13, 2), IntNum(5))

\* The flat rubric of test_rubric_with_single_criterion.
SingleRubric ==
    Flat(<<FlatCriterion("quality", IntNum(1))>>, IntNum(6), IntNum(4))

Rubrics ==
    {SmallRubric, DupRubric, TenRubric, BigRubric, NoDescRubric, FlatRubric,
     FlatRubric3}

Letters(k) == <<[ch |-> "a", n |-> k]>>

Blanks(k) == <<[ch |-> " ", n |-> k]>>

\* 'aaa...a. aaa...a': one sentence end shortly before the first boundary.
Sentences(k) ==
    <<[ch |-> "a", n |-> ChunkSize - 100], [ch |-> ".", n |-> 1],
      [ch |-> " ", n |-> 1], [ch |-> "a", n |-> k - ChunkSize + 98]>>

LongTranscript == 10000

Transcripts ==
    { <<>>, Letters(LengthThreshold), Letters(LengthThreshold + 1),
      Letters(ChunkSize + 1), Blanks(ChunkSize + 1),
      Letters(LongTranscript), Sentences(LongTranscript) }

IsNewFormat(r) == "categories" \in DOMAIN r

\* All criteria of a hierarchical rubric, in rubric order.
RECURSIVE FlattenCriteria(_)
FlattenCriteria(cats) ==
    IF cats = <<>> THEN <<>>
    ELSE Head(cats).criteria \o FlattenCriteria(Tail(cats))

CriterionIds(crits) == {crits[i].criterion_id : i \in DOMAIN crits}

FirstOcc(crits, id) ==
    CHOOSE i \in DOMAIN crits :
        /\ crits[i].criterion_id = id
        /\ \A j \in DOMAIN crits : crits[j].criterion_id = id => i <= j

LastOcc(crits, id) ==
    CHOOSE i \in DOMAIN crits :
        /\ crits[i].criterion_id = id
        /\ \A j \in DOMAIN crits : crits[j].criterion_id = id => j <= i

(***************************************************************************)
(* The external scorer                                                     *)
(*                                                                         *)
(* A scoring call either fails (network or auth error, empty or malformed  *)
(* JSON) or returns a parsed JSON object.  The scorer is not trusted: the  *)
(* object may carry out-of-range, fractional or non-numeric scores, may    *)
(* lack keys, and asserts its own totals and pass_status.  Entries of      *)
(* 'scores' are listed in the order of the prompt (rubric order).          *)
(***************************************************************************)
Overshoot == 999

ScorerConfidence == 8

ScoreProfiles == {"lo", "hi", "over", "neg", "half", "str_first", "str_last"}

ShapeProfiles == {"noconf", "nonote", "emptynote", "partial", "noscores"}

\* The raw score the scorer gives the i-th of k criteria whose maximum is m.
ProfileScore(p, i, k, m) ==
    CASE p = "lo"        -> IntNum(0)
      [] p = "over"      -> IF i = 1 THEN IntNum(Overshoot) ELSE IntNum(m)
      [] p = "neg"       -> IF i = 1 THEN IntNum(-1) ELSE IntNum(0)
      [] p = "half"      -> IF i = 1 THEN Rat(2 * m - 1, 2) ELSE IntNum(0)
      [] p = "str_first" -> IF i = 1 THEN NonNumeric ELSE IntNum(Overshoot)
      [] p = "str_last"  -> IF i = k THEN NonNumeric ELSE IntNum(Overshoot)
      [] OTHER           -> IntNum(m)

ProfileEntry(p, score) ==
    CASE p = "noconf"    -> [score |-> score, note |-> <<"ok">>]
      [] p = "nonote"    -> [score |-> score, confidence |-> ScorerConfidence]
      [] p = "emptynote" -> [score |-> score, confidence |-> ScorerConfidence,
                             note |-> <<>>]
      [] OTHER           -> [score |-> score, confidence |-> ScorerConfidence,
                             note |-> <<"ok">>]

\* The 'scores' object for the criteria crits (records with criterion_id and
\* max_points) under profile p.
ProfileScores(p, crits) ==
    LET ids == IF p = "partial" THEN {crits[1].criterion_id}
               ELSE CriterionIds(crits)
    IN  [id \in ids |->
            LET i == FirstOcc(crits, id)
            IN  ProfileEntry(p, ProfileScore(p, i, Len(crits), crits[i].max_points))]

\* What the scorer asserts about the whole evaluation (never to be trusted).
ScorerOverall ==
    [total_points |-> Overshoot, max_points |-> 1,
     percentage |-> IntNum(Overshoot), pass_status |-> "pass"]

\* Responses to a prompt for the whole hierarchical rubric
\* (_evaluate_simple_rubric, _evaluate_single_chunk).
RubricResponses(crits) ==
    {[scores |-> ProfileScores(p, crits), overall |-> ScorerOverall,
      short_summary |-> <<"scorer">>] :
        p \in ScoreProfiles \cup (ShapeProfiles \ {"noscores"})}
    \cup {[short_summary |-> <<"scorer">>]}

\* Responses to a prompt for one category (_evaluate_single_category).
CategoryResponses(category) ==
    {[scores |-> ProfileScores(p, category.criteria),
      category |-> [points |-> IF p \in {"lo", "neg", "half"} THEN 0
                               ELSE category.max_points,
                    max_points |-> category.max_points,
                    percentage |-> IntNum(0)]] :
        p \in ScoreProfiles \cup (ShapeProfiles \ {"noscores"})}
    \cup {[scores |-> ProfileScores("hi", category.criteria),
           category |-> [points |-> Overshoot,
                         max_points |-> category.max_points,
                         percentage |-> IntNum(Overshoot)]],
          [scores |-> ProfileScores("hi", category.criteria)],
          [category |-> [points |-> category.max_points,
                         max_points |-> category.max_points,
                         percentage |-> IntNum(100)]]}

\* Responses to a prompt for one category within one chunk
\* (_evaluate_single_category_in_chunk).
CategoryChunkResponses(category) ==
    {[scores |-> ProfileScores(p, category.criteria)] :
        p \in ScoreProfiles \cup (ShapeProfiles \ {"noscores"})}
    \cup {[short_summary |-> <<"scorer">>]}

FlatAsCriteria(rubric) ==
    [i \in 1..Len(rubric.criteria) |->
        [criterion_id |-> rubric.criteria[i].id, max_points |-> 10]]

FlatProfileScores(p, rubric) ==
    LET crits == FlatAsCriteria(rubric)
        ids == IF p = "partial" THEN {crits[1].criterion_id}
               ELSE CriterionIds(crits)
    IN  [id \in ids |->
            ProfileEntry(p, IF p = "lo" THEN IntNum(1)
                            ELSE IF p = "str_first" /\ FirstOcc(crits, id) = 1
                                 THEN NonNumeric
                            ELSE IntNum(10))]

\* Responses to a flat-rubric prompt; the scorer asserts a pass_status that
\* agrees with its scores ("hi": pass) or does not ("lo": pass).
FlatResponses(rubric) ==
    {[scores |-> FlatProfileScores(p, rubric),
      overall |-> [weighted_score |-> Rat(99, 10), method |-> "weighted_mean",
                   pass_status |-> "pass"],
      short_summary |-> <<"scorer">>] :
        p \in {"lo", "hi", "str_first", "noconf", "nonote", "partial"}}
    \cup {[scores |-> FlatProfileScores("hi", rubric),
           overall |-> [weighted_score |-> IntNum(10),
                        method |-> "weighted_mean", pass_status |-> "fail"],
           short_summary |-> <<"scorer">>],
          [short_summary |-> <<"scorer">>]}

(***************************************************************************)
(* Normalisation, status and fallbacks                                     *)
(***************************************************************************)
NumMul(x, y) == Rat(x.n * y.n, x.d * y.d)

NumDiv(x, y) == Rat(x.n * y.d, x.d * y.n)

EmptyDict == <<>>

RECURSIVE SumFn(_)
SumFn(f) ==
    IF DOMAIN f = {} THEN 0
    ELSE LET x == CHOOSE x \in DOMAIN f : TRUE
         IN  f[x] + SumFn([y \in DOMAIN f \ {x} |-> f[y]])

\* 'pass' if total >= pass else ('revise' if total >= revise else 'fail')
PassStatus(total, thresholds) ==
    IF NumGeq(total, thresholds.pass) THEN "pass"
    ELSE IF NumGeq(total, thresholds.revise) THEN "revise"
    ELSE "fail"

\* (points / max_points) * 100 if max_points > 0 else 0
Percentage(points, max_points) ==
    IF max_points > 0 THEN Rat(100 * points, max_points) ELSE IntNum(0)

\* The ids of the prompt, in prompt order.
PromptIds(rubric) ==
    IF IsNewFormat(rubric)
    THEN LET crits == FlattenCriteria(rubric.categories)
         IN  [i \in 1..Len(crits) |-> crits[i].criterion_id]
    ELSE [i \in 1..Len(rubric.criteria) |-> rubric.criteria[i].id]

PromptPos(rubric, id) ==
    LET ids == PromptIds(rubric)
    IN  CHOOSE i \in DOMAIN ids :
            ids[i] = id /\ \A j \in DOMAIN ids : ids[j] = id => i <= j

\* Lines 2272-2281: one entry, clamped to [0, m]; confidence to 1..10.
ClampEntry(data, m) ==
    LET clamped == Max2(0, Min2(PyRound(Get(data, "score", IntNum(0))), m))
    IN  IF "confidence" \in DOMAIN data
        THEN [data EXCEPT !.score = IntNum(clamped),
                          !.confidence = Max2(1, Min2(data.confidence, 10))]
        ELSE [data EXCEPT !.score = IntNum(clamped)]

\* crit_max[cid] of lines 2259-2268: the last criterion with the id wins.
CritMax(crits, id) ==
    IF id \in CriterionIds(crits) THEN crits[LastOcc(crits, id)].max_points ELSE 0

\* crit_to_cat[cid] = c (lines 2259-2268): c is the last category holding id.
InCat(cats, id, c) ==
    \E k \in DOMAIN cats :
        /\ cats[k].category_id = c
        /\ id \in CriterionIds(cats[k].criteria)
        /\ \A j \in DOMAIN cats : id \in CriterionIds(cats[j].criteria) => j <= k

\* The entries whose score round() cannot take (it raises TypeError).
BadScores(scores) ==
    {id \in DOMAIN scores : ~IsNumeric(Get(scores[id], "score", IntNum(0)))}

\* The entries the loop of lines 2272-2281 rewrote before round() raised.
ClampedIds(rubric, scores, bad) ==
    IF bad = {} THEN DOMAIN scores
    ELSE {id \in DOMAIN scores :
            \E b \in bad :
                /\ \A o \in bad : PromptPos(rubric, b) <= PromptPos(rubric, o)
                /\ PromptPos(rubric, id) < PromptPos(rubric, b)}

\* Lines 2270-2281, in place on the scores object.
ClampScores(rubric, crits, scores, bad) ==
    [id \in DOMAIN scores |->
        IF id \in ClampedIds(rubric, scores, bad)
        THEN ClampEntry(scores[id], CritMax(crits, id))
        ELSE scores[id]]

\* Lines 2292-2297 for one category whose criteria sum to pts.
NormCategory(cat, pts) ==
    [points |-> Max2(0, Min2(pts, cat.max_points)),
     max_points |-> cat.max_points,
     percentage |-> Percentage(Max2(0, Min2(pts, cat.max_points)), cat.max_points)]

\* Lines 2283-2297: categories recomputed from the clamped scores.
NormCategories(cats, clamped) ==
    [c \in {cats[k].category_id : k \in DOMAIN cats} |->
        NormCategory(cats[CHOOSE k \in DOMAIN cats : cats[k].category_id = c],
                     SumFn([id \in {i \in DOMAIN clamped : InCat(cats, i, c)} |->
                               clamped[id].score.n]))]

\* Lines 2299-2325: the overall object, updated over the scorer's.
NormOverall(rubric, result, total_points, max_points) ==
    [total_points |-> total_points, max_points |-> max_points,
     percentage |-> PyRound1(Percentage(total_points, max_points)),
     pass_status |-> PassStatus(IntNum(total_points), rubric.thresholds)]
    @@ Get(result, "overall", EmptyDict)

\* Lines 2316-2325: the normalised structure written back.
NormWrite(rubric, result, clamped, categories) ==
    ("scores" :> clamped) @@ ("categories" :> categories)
    @@ ("overall" :>
          NormOverall(rubric, result,
                      SumFn([c \in DOMAIN categories |-> categories[c].points]),
                      SumFn([c \in DOMAIN categories |-> categories[c].max_points])))
    @@ result

\* The body of the try block and its except clause (lines 2257-2330).
NormFrom(rubric, result, cats, bad, clamped) ==
    IF bad # {} THEN [result EXCEPT !.scores = clamped]
    ELSE NormWrite(rubric, result, clamped, NormCategories(cats, clamped))

NormScores(rubric, result, cats, scores, bad) ==
    NormFrom(rubric, result, cats, bad,
             ClampScores(rubric, FlattenCriteria(cats), scores, bad))

\* _normalize_new_format_result.  round() of a non-numeric score raises; the
\* except clause then returns the result as far as it was rewritten in place.
normalize_new_format_result(rubric, result) ==
    NormScores(rubric, result,
               IF IsNewFormat(rubric) THEN rubric.categories ELSE <<>>,
               Get(result, "scores", EmptyDict),
               BadScores(Get(result, "scores", EmptyDict)))

\* 60% rounded to the nearest integer instead of truncated.
FallbackScore_Rounded(m) == PyRound(Rat(6 * m, 10))

\* int(criterion['max_points'] * 0.6)
FallbackScore(m) == (6 * m) \div 10

FallbackConfidence == 3

\* The scores dict a fallback loop builds: a later criterion with the same id
\* overwrites an earlier one.
FallbackScores(crits, confidence, note) ==
    [id \in CriterionIds(crits) |->
        [score |-> IntNum(FallbackScore(crits[LastOcc(crits, id)].max_points)),
         confidence |-> confidence, note |-> note]]

FallbackCategory(category) ==
    LET points == SumInts([i \in 1..Len(category.criteria) |->
                              FallbackScore(category.criteria[i].max_points)])
    IN  [points |-> points, max_points |-> category.max_points,
         percentage |-> Percentage(points, category.max_points)]

\* The overall object computed from a categories dict (lines 2080-2098).
OverallOf(rubric, categories) ==
    LET total_points == SumFn([c \in DOMAIN categories |-> categories[c].points])
        max_points == SumFn([c \in DOMAIN categories |-> categories[c].max_points])
    IN  [total_points |-> total_points, max_points |-> max_points,
         percentage |-> PyRound1(Percentage(total_points, max_points)),
         pass_status |-> PassStatus(IntNum(total_points), rubric.thresholds)]

FallbackEvaluation(rubric, note, summary) ==
    LET cats == rubric.categories
        categories == [c \in {cats[k].category_id : k \in DOMAIN cats} |->
            FallbackCategory(cats[CHOOSE k \in DOMAIN cats : cats[k].category_id = c])]
    IN  [scores |-> FallbackScores(FlattenCriteria(cats), FallbackConfidence, note),
         overall |-> OverallOf(rubric, categories),
         categories |-> categories,
         short_summary |-> summary]

\* _fallback_new_rubric_evaluation
fallback_new_rubric_evaluation(rubric) ==
    FallbackEvaluation(rubric, <<Marker>>, <<"Auto-generated conservative evaluation">>)

\* _fallback_single_chunk_evaluation
fallback_single_chunk_evaluation(rubric) ==
    FallbackEvaluation(rubric, <<Marker, " for chunk">>,
                       <<"Auto-generated conservative chunk evaluation">>)

OldFallbackScore == 6

\* sum(score * weight) / sum(weight) over the rubric's criteria
WeightedScore(rubric, scores) ==
    LET cs == rubric.criteria
    IN  NumDiv(SumNums([i \in 1..Len(cs) |-> NumMul(scores[cs[i].id].score, cs[i].weight)]),
               SumNums([i \in 1..Len(cs) |-> cs[i].weight]))

\* A flat fallback that scores every criterion at the bottom of the scale.
fallback_old_evaluation_Min(rubric) ==
    LET scores == [id \in Range(PromptIds(rubric)) |->
                      [score |-> IntNum(rubric.scale.min), note |-> <<Marker>>]]
        weighted == WeightedScore(rubric, scores)
    IN  [scores |-> scores,
         overall |-> [weighted_score |-> weighted, method |-> rubric.overall_method,
                      pass_status |-> PassStatus(weighted, rubric.thresholds)],
         short_summary |-> <<"Auto summary">>]

\* The flat fallback of lines 1237-1244 and 1362-1368 (no confidence).
fallback_old_evaluation(rubric) ==
    LET scores == [id \in Range(PromptIds(rubric)) |->
                      [score |-> IntNum(OldFallbackScore), note |-> <<Marker>>]]
        weighted == WeightedScore(rubric, scores)
    IN  [scores |-> scores,
         overall |-> [weighted_score |-> weighted, method |-> rubric.overall_method,
                      pass_status |-> PassStatus(weighted, rubric.thresholds)],
         short_summary |-> <<"Auto summary">>]

\* _fallback_single_chunk_old_evaluation
fallback_single_chunk_old_evaluation(rubric) ==
    LET scores == [id \in Range(PromptIds(rubric)) |->
                      [score |-> IntNum(OldFallbackScore),
                       confidence |-> FallbackConfidence,
                       note |-> <<Marker, " for chunk">>]]
        weighted == WeightedScore(rubric, scores)
    IN  [scores |-> scores,
         overall |-> [weighted_score |-> weighted, method |-> rubric.overall_method,
                      pass_status |-> PassStatus(weighted, rubric.thresholds)],
         short_summary |-> <<"Auto summary">>]

(***************************************************************************)
(* Aggregation                                                             *)
(***************************************************************************)
Ok(v) == [raised |-> "none", value |-> v]

Raise(e) == [raised |-> e]

\* The entries the chunk results hold for one criterion, in chunk order.
EntriesFor(chunk_results, id) ==
    LET with == SelectSeq(chunk_results,
                    LAMBDA r : "scores" \in DOMAIN r /\ id \in DOMAIN r.scores)
    IN  [i \in 1..Len(with) |-> with[i].scores[id]]

AllCriterionIds(chunk_results) ==
    UNION {DOMAIN chunk_results[i].scores :
              i \in {j \in DOMAIN chunk_results : "scores" \in DOMAIN chunk_results[j]}}

ScoresOf(entries) == [i \in 1..Len(entries) |-> Get(entries[i], "score", IntNum(0))]

ConfidencesOf(entries) == [i \in 1..Len(entries) |-> Get(entries[i], "confidence", 5)]

NotesOf(entries) == [i \in 1..Len(entries) |-> Get(entries[i], "note", <<>>)]

\* sum() over a list holding a non-numeric score raises TypeError.
SumRaises(entries) == \E i \in DOMAIN entries : ~IsNumeric(Get(entries[i], "score", IntNum(0)))

\* crit_max of lines 1943-1950 and 1639-1646: the first criterion of the
\* rubric with this id, 0 when there is none.
FirstCritMax(rubric, id) ==
    LET crits == FlattenCriteria(rubric.categories)
    IN  IF id \in CriterionIds(crits) THEN crits[FirstOcc(crits, id)].max_points ELSE 0

\* max(0, min(round(avg_score), crit_max))
ClampedMean(entries, crit_max) ==
    Max2(0, Min2(PyRound(NumDivInt(SumNums(ScoresOf(entries)), Len(entries))), crit_max))

\* Lines 1970-1989: category totals from the aggregated scores.
CategoriesFrom(rubric, aggregated_scores) ==
    LET cats == rubric.categories
    IN  [c \in {cats[k].category_id : k \in DOMAIN cats} |->
            LET cat == cats[CHOOSE k \in DOMAIN cats : cats[k].category_id = c]
                pts == SumInts([i \in 1..Len(cat.criteria) |->
                          IF cat.criteria[i].criterion_id \in DOMAIN aggregated_scores
                          THEN aggregated_scores[cat.criteria[i].criterion_id].score.n
                          ELSE 0])
                points == Max2(0, Min2(pts, cat.max_points))
            IN  [points |-> points, max_points |-> cat.max_points,
                 percentage |-> Percentage(points, cat.max_points)]]

\* _aggregate_chunk_results
aggregate_chunk_results(rubric, chunk_results) ==
    IF chunk_results = <<>> THEN Ok(fallback_new_rubric_evaluation(rubric))
    ELSE
      LET ids == AllCriterionIds(chunk_results)
      IN  IF \E id \in ids : SumRaises(EntriesFor(chunk_results, id))
          THEN Raise("TypeError")
          ELSE
            LET aggregated_scores ==
                  [id \in ids |->
                     LET es == EntriesFor(chunk_results, id)
                     IN  [score |-> IntNum(ClampedMean(es, FirstCritMax(rubric, id))),
                          confidence |-> MaxInts(ConfidencesOf(es)),
                          note |-> AggregatedNote(Len(es), NotesOf(es))]]
                categories == CategoriesFrom(rubric, aggregated_scores)
            IN  Ok([scores |-> aggregated_scores,
                    overall |-> OverallOf(rubric, categories),
                    categories |-> categories,
                    short_summary |-> <<"Evaluated ", NumStr(Len(chunk_results)),
                                        " transcript chunks with ",
                                        NumStr(Cardinality(ids)), " criteria">>])

\* _aggregate_chunk_results_old
aggregate_chunk_results_old(rubric, chunk_results) ==
    IF chunk_results = <<>> THEN Ok(fallback_old_evaluation(rubric))
    ELSE
      LET ids == AllCriterionIds(chunk_results)
      IN  IF \E id \in ids : SumRaises(EntriesFor(chunk_results, id))
          THEN Raise("TypeError")
          ELSE IF \E id \in Range(PromptIds(rubric)) : id \notin ids
          THEN Raise("KeyError")
          ELSE
            LET aggregated_scores ==
                  [id \in ids |->
                     LET es == EntriesFor(chunk_results, id)
                     IN  [score |-> PyRound1(NumDivInt(SumNums(ScoresOf(es)), Len(es))),
                          confidence |-> MaxInts(ConfidencesOf(es)),
                          note |-> AggregatedNote(Len(es), NotesOf(es))]]
                weighted_score == WeightedScore(rubric, aggregated_scores)
            IN  Ok([scores |-> aggregated_scores,
                    overall |-> [weighted_score |-> PyRound1(weighted_score),
                                 method |-> rubric.overall_method,
                                 pass_status |-> PassStatus(weighted_score, rubric.thresholds)],
                    short_summary |-> <<"Evaluated ", NumStr(Len(chunk_results)),
                                        " transcript chunks with ",
                                        NumStr(Cardinality(ids)), " criteria">>])

\* Lines 1631-1667: one category of the both-axes path, from the lists
\* category_scores[criterion_id] collected over the chunks.
EntryRaises(entries) ==
    IF SumRaises(entries) THEN "TypeError"
    ELSE IF \E i \in DOMAIN entries :
              "confidence" \notin DOMAIN entries[i] \/ "note" \notin DOMAIN entries[i]
    THEN "KeyError"
    ELSE "none"

aggregate_category(rubric, category, category_scores) ==
    LET ids == DOMAIN category_scores
        failing == {id \in ids : EntryRaises(category_scores[id]) # "none"}
        first == CHOOSE id \in failing :
                    \A o \in failing : PromptPos(rubric, id) <= PromptPos(rubric, o)
    IN  IF failing # {} THEN Raise(EntryRaises(category_scores[first]))
        ELSE
          LET aggregated_category_scores ==
                [id \in ids |->
                   LET es == category_scores[id]
                   IN  [score |-> IntNum(ClampedMean(es, FirstCritMax(rubric, id))),
                        confidence |-> MaxInts(ConfidencesOf(es)),
                        note |-> AggregatedNote(Len(es), NotesOf(es))]]
              pts == SumFn([id \in ids |-> aggregated_category_scores[id].score.n])
              category_points == Max2(0, Min2(pts, category.max_points))
          IN  Ok([scores |-> aggregated_category_scores,
                  category |-> [points |-> category_points,
                                max_points |-> category.max_points,
                                percentage |-> Percentage(category_points,
                                                          category.max_points)]])

(***************************************************************************)
(* One call of evaluate_transcript_with_rubric                             *)
(***************************************************************************)
VARIABLES
    rubric,            \* self.rubric, read-only
    transcript,        \* the transcript argument
    llm,               \* self.llm: TRUE when a provider client is available
    pc,                \* "idle", "run", "done" (returned) or "raised"
    path,              \* the decomposition path taken
    chunks,            \* result of _chunk_transcript, as ranges
    cat_i,             \* position of the loop over rubric['categories']
    chunk_i,           \* position of the loop over chunks
    chunk_results,     \* list built by the chunk loops
    scores,            \* dict built by _evaluate_complex_rubric_chunked
    categories,        \* dict built by _evaluate_complex_rubric_chunked
    category_scores,   \* dict of lists built per category (both axes)
    category_results,  \* dict built by the both-axes path
    result,            \* the returned value
    raised,            \* the exception that escaped, or "none"
    calls,             \* number of requests sent to the scorer
    unit_log,          \* history: one record per unit, in evaluation order
    candidate,         \* validate_rubric: the rubric argument
    verdict,           \* validate_rubric: NoVerdict, or the value returned
    ck_text,           \* _chunk_transcript: the transcript argument
    ck_size,           \* _chunk_transcript: chunk_size
    ck_overlap,        \* _chunk_transcript: overlap
    ck_start,          \* _chunk_transcript: start
    ck_windows,        \* history: the window [start, end) of every iteration
    ck_chunks,         \* _chunk_transcript: chunks
    ck_pc,             \* "idle", "call", "loop" or "done" (returned)
    ag_rubric,         \* aggregation: self.rubric
    ag_given,          \* aggregation: the list of partial results as first passed
    ag_list,           \* aggregation: the same list object, as it is now
    ag_returns,        \* aggregation: what each call so far returned or raised
    fb_rubric,         \* feedback: self.rubric
    fb_items,          \* feedback: evaluation['scores'].items(), in insertion order
    fb_status,         \* feedback: evaluation['overall']['pass_status']
    fb_llm,            \* feedback: TRUE when the feedback request is answered
    fb_feedback,       \* feedback: NoResult, the value returned, or what was raised
    fb_segments,       \* feedback: the segments argument
    fb_cited,          \* history: the segments listed in the feedback prompt
    ls_files,          \* list_available_rubrics: the rubric files, in sorted order
    ls_available,      \* list_available_rubrics: available
    ls_i,              \* list_available_rubrics: position of the for loop
    ls_original,       \* list_available_rubrics: original_name
    ls_counter,        \* list_available_rubrics: counter
    ls_seen,           \* list_available_rubrics: seen_names
    ls_pc              \* "idle", "for", "while" or "done" (returned)

eval_vars == <<rubric, transcript, llm, pc, path, chunks, cat_i, chunk_i,
               chunk_results, scores, categories, category_scores,
               category_results, result, raised, calls, unit_log>>

validator_vars == <<candidate, verdict>>

\* The state of the functions that are exercised on their own.
chunker_vars == <<ck_text, ck_size, ck_overlap, ck_start, ck_windows,
                  ck_chunks, ck_pc>>

aggregator_vars == <<ag_rubric, ag_given, ag_list, ag_returns>>

feedback_vars == <<fb_rubric, fb_items, fb_status, fb_llm, fb_feedback,
                   fb_segments, fb_cited>>

lister_vars == <<ls_files, ls_available, ls_i, ls_original, ls_counter, ls_seen,
                 ls_pc>>

pure_vars == <<validator_vars, chunker_vars, aggregator_vars, feedback_vars,
               lister_vars>>

\* What the steps of one function leave alone.
not_validator_vars == <<eval_vars, chunker_vars, aggregator_vars, feedback_vars,
                        lister_vars>>

not_chunker_vars == <<eval_vars, validator_vars, aggregator_vars, feedback_vars,
                      lister_vars>>

not_aggregator_vars == <<eval_vars, validator_vars, chunker_vars, feedback_vars,
                         lister_vars>>

not_feedback_vars == <<eval_vars, validator_vars, chunker_vars, aggregator_vars,
                       lister_vars>>

not_lister_vars == <<eval_vars, validator_vars, chunker_vars, aggregator_vars,
                     feedback_vars>>

vars == <<eval_vars, pure_vars>>

NoResult == [none |-> TRUE]

\* Nothing of an evaluation has run yet.
EvalFresh ==
    /\ pc = "idle"
    /\ path = "none"
    /\ chunks = <<>>
    /\ cat_i = 1
    /\ chunk_i = 1
    /\ chunk_results = <<>>
    /\ scores = EmptyDict
    /\ categories = EmptyDict
    /\ category_scores = EmptyDict
    /\ category_results = <<>>
    /\ result = NoResult
    /\ raised = "none"
    /\ calls = 0
    /\ unit_log = <<>>

EvalInit ==
    /\ rubric \in Rubrics
    /\ transcript \in Transcripts
    /\ llm \in BOOLEAN
    /\ EvalFresh

\* No evaluation is requested: the evaluator's variables of the
\* specifications that only apply a pure function.
EvalIdle ==
    /\ rubric = SmallRubric
    /\ transcript = <<>>
    /\ llm = FALSE
    /\ EvalFresh

\* No validation is in progress.
NoVerdict == [pending |-> TRUE]

ValidatorIdle == candidate = NoResult /\ verdict = NoVerdict

\* _chunk_transcript is not called.
ChunkerIdle ==
    /\ ck_text = <<>>
    /\ ck_size = ChunkSize
    /\ ck_overlap = Overlap
    /\ ck_start = 0
    /\ ck_windows = <<>>
    /\ ck_chunks = <<>>
    /\ ck_pc = "idle"

\* No aggregation is called on its own.
AggregatorIdle ==
    /\ ag_rubric = SmallRubric
    /\ ag_given = <<>>
    /\ ag_list = <<>>
    /\ ag_returns = <<>>

\* generate_qualitative_feedback is not called.
FeedbackIdle ==
    /\ fb_rubric = SmallRubric
    /\ fb_items = <<>>
    /\ fb_status = "fail"
    /\ fb_llm = FALSE
    /\ fb_feedback = NoResult
    /\ fb_segments = <<>>
    /\ fb_cited = <<>>

\* list_available_rubrics is not called.
ListerIdle ==
    /\ ls_files = <<>>
    /\ ls_available = <<>>
    /\ ls_i = 1
    /\ ls_original = <<>>
    /\ ls_counter = 1
    /\ ls_seen = {}
    /\ ls_pc = "idle"

PureIdle ==
    ValidatorIdle /\ ChunkerIdle /\ AggregatorIdle /\ FeedbackIdle /\ ListerIdle

Init == EvalInit /\ PureIdle

TotalCriteria(r) == Len(FlattenCriteria(r.categories))

\* The dispatch with both comparisons inclusive.
PathOf_Inclusive(r, t) ==
    IF IsNewFormat(r)
    THEN IF TotalCriteria(r) >= ComplexThreshold
         THEN IF TextLen(t) >= LengthThreshold THEN "both" ELSE "category_only"
         ELSE IF TextLen(t) >= LengthThreshold THEN "chunk_only" ELSE "single"
    ELSE IF TextLen(t) >= LengthThreshold THEN "flat_chunked" ELSE "flat_single"

\* The branch taken by lines 1129-1152, 1447, 1558-1560 and 2063.
PathOf(r, t) ==
    IF IsNewFormat(r)
    THEN IF TotalCriteria(r) > ComplexThreshold
         THEN IF TextLen(t) > LengthThreshold THEN "both" ELSE "category_only"
         ELSE IF TextLen(t) > LengthThreshold THEN "chunk_only" ELSE "single"
    ELSE IF TextLen(t) > LengthThreshold THEN "flat_chunked" ELSE "flat_single"

\* evaluate_transcript_with_rubric up to the first scoring step.
Dispatch ==
    /\ pc = "idle"
    /\ pc' = "run"
    /\ path' = PathOf(rubric, transcript)
    /\ chunks' = IF path' \in {"both", "chunk_only", "flat_chunked"}
                 THEN chunk_transcript(transcript, ChunkSize, Overlap)
                 ELSE <<>>
    /\ UNCHANGED pure_vars
    /\ UNCHANGED <<rubric, transcript, llm, cat_i, chunk_i, chunk_results, scores,
                   categories, category_scores, category_results, result,
                   raised, calls, unit_log>>

\* What one scoring call yields: a failure or a parsed response.
CallFailed == [failed |-> TRUE]

Outcomes(responses) == IF llm THEN {CallFailed} \cup responses ELSE {CallFailed}

Failed(o) == "failed" \in DOMAIN o

Sent == IF llm THEN 1 ELSE 0

\* A response that parsed but lacks a key the evaluator looks up by name.
MissingKeys(o) ==
    /\ ~Failed(o)
    /\ \/ "scores" \notin DOMAIN o
       \/ \E id \in DOMAIN o.scores :
             "confidence" \notin DOMAIN o.scores[id] \/ "note" \notin DOMAIN o.scores[id]

ScoredIds(r) == IF "scores" \in DOMAIN r THEN DOMAIN r.scores ELSE {}

\* History record of one unit: whether a request was sent, whether the call
\* failed, whether the evaluator substituted the fallback, whether the
\* response lacked keys, what the scorer answered (raw), and the entries the
\* unit contributed (its scores after normalisation or fallback).
Unit(cat, chunk, called, failed, fallback, missing, raw, r) ==
    [cat |-> cat, chunk |-> chunk, called |-> called, failed |-> failed,
     fallback |-> fallback, missing |-> missing, ids |-> ScoredIds(r),
     raw |-> raw, entries |-> Get(r, "scores", EmptyDict)]

Return(v) ==
    /\ pc' = "done"
    /\ result' = v
    /\ raised' = "none"

Escape(e) ==
    /\ pc' = "raised"
    /\ result' = NoResult
    /\ raised' = e

\* _evaluate_with_old_rubric_format, single call (lines 1196-1244): the
\* parsed response is returned as it is.
EvaluateOldSingle ==
    /\ pc = "run" /\ path = "flat_single"
    /\ \E o \in Outcomes(FlatResponses(rubric)) :
         \E r \in {IF Failed(o) THEN fallback_old_evaluation(rubric) ELSE o} :
             /\ Return(r)
             /\ unit_log' = Append(unit_log, Unit("", 0, llm, Failed(o), Failed(o), MissingKeys(o), o, r))
    /\ calls' = calls + Sent
    /\ UNCHANGED pure_vars
    /\ UNCHANGED <<rubric, transcript, llm, path, chunks, cat_i, chunk_i,
                   chunk_results, scores, categories, category_scores,
                   category_results>>

\* One iteration of the loop of _evaluate_old_rubric_chunked (1257-1270).
EvaluateSingleChunkOld ==
    /\ pc = "run" /\ path = "flat_chunked"
    /\ chunk_i <= Len(chunks)
    /\ \E o \in Outcomes(FlatResponses(rubric)) :
         \E r \in {IF Failed(o) THEN fallback_single_chunk_old_evaluation(rubric)
                  ELSE normalize_new_format_result(rubric, o)} :
             /\ chunk_results' = Append(chunk_results, r)
             /\ unit_log' = Append(unit_log, Unit("", chunk_i, llm, Failed(o), Failed(o), MissingKeys(o), o, r))
    /\ chunk_i' = chunk_i + 1
    /\ calls' = calls + Sent
    /\ UNCHANGED pure_vars
    /\ UNCHANGED <<rubric, transcript, llm, pc, path, chunks, cat_i, scores,
                   categories, category_scores, category_results, result, raised>>

\* The end of _evaluate_old_rubric_chunked (line 1273).
AggregateChunkResultsOld ==
    /\ pc = "run" /\ path = "flat_chunked"
    /\ chunk_i > Len(chunks)
    /\ LET a == aggregate_chunk_results_old(rubric, chunk_results)
       IN  IF a.raised = "none" THEN Return(a.value) ELSE Escape(a.raised)
    /\ UNCHANGED pure_vars
    /\ UNCHANGED <<rubric, transcript, llm, path, chunks, cat_i, chunk_i,
                   chunk_results, scores, categories, category_scores,
                   category_results, calls, unit_log>>

\* _evaluate_simple_rubric, single call (lines 1505-1552).
EvaluateSimpleRubric ==
    /\ pc = "run" /\ path = "single"
    /\ \E o \in Outcomes(RubricResponses(FlattenCriteria(rubric.categories))) :
         \E r \in {IF Failed(o) THEN fallback_new_rubric_evaluation(rubric)
                  ELSE normalize_new_format_result(rubric, o)} :
             /\ Return(r)
             /\ unit_log' = Append(unit_log, Unit("", 0, llm, Failed(o), Failed(o), MissingKeys(o), o, r))
    /\ calls' = calls + Sent
    /\ UNCHANGED pure_vars
    /\ UNCHANGED <<rubric, transcript, llm, path, chunks, cat_i, chunk_i,
                   chunk_results, scores, categories, category_scores,
                   category_results>>

\* One iteration of the loop of _evaluate_transcript_chunked (1570-1584).
EvaluateSingleChunk ==
    /\ pc = "run" /\ path = "chunk_only"
    /\ chunk_i <= Len(chunks)
    /\ \E o \in Outcomes(RubricResponses(FlattenCriteria(rubric.categories))) :
         \E r \in {IF Failed(o) THEN fallback_single_chunk_evaluation(rubric)
                  ELSE normalize_new_format_result(rubric, o)} :
             /\ chunk_results' = Append(chunk_results, r)
             /\ unit_log' = Append(unit_log, Unit("", chunk_i, llm, Failed(o), Failed(o), MissingKeys(o), o, r))
    /\ chunk_i' = chunk_i + 1
    /\ calls' = calls + Sent
    /\ UNCHANGED pure_vars
    /\ UNCHANGED <<rubric, transcript, llm, pc, path, chunks, cat_i, scores,
                   categories, category_scores, category_results, result, raised>>

\* The end of _evaluate_transcript_chunked (line 1587).
AggregateChunkResults ==
    /\ pc = "run" /\ path = "chunk_only"
    /\ chunk_i > Len(chunks)
    /\ LET a == aggregate_chunk_results(rubric, chunk_results)
       IN  IF a.raised = "none" THEN Return(a.value) ELSE Escape(a.raised)
    /\ UNCHANGED pure_vars
    /\ UNCHANGED <<rubric, transcript, llm, path, chunks, cat_i, chunk_i,
                   chunk_results, scores, categories, category_scores,
                   category_results, calls, unit_log>>

\* Building the per-category prompt reads criterion['desc'] (lines 1707, 2110).
PromptRaises(category) ==
    \E i \in DOMAIN category.criteria : "desc" \notin DOMAIN category.criteria[i]

CategoryFallbackConfidence == 5

\* The fallback of _evaluate_single_category (lines 2185-2204).
fallback_single_category(category) ==
    [scores |-> FallbackScores(category.criteria, CategoryFallbackConfidence, <<Marker>>),
     category |-> FallbackCategory(category)]

\* One iteration of the loop of _evaluate_complex_rubric_chunked (2070-2075).
EvaluateSingleCategory ==
    /\ pc = "run" /\ path = "category_only"
    /\ cat_i <= Len(rubric.categories)
    /\ LET category == rubric.categories[cat_i]
       IN  IF PromptRaises(category)
           THEN /\ Escape("KeyError")
                /\ UNCHANGED <<scores, categories, cat_i, calls, unit_log>>
           ELSE
             \E o \in Outcomes(CategoryResponses(category)) :
               \E category_result \in
                     {IF Failed(o) THEN fallback_single_category(category)
                      ELSE normalize_new_format_result(rubric, o)} :
                   /\ calls' = calls + Sent
                   /\ unit_log' = Append(unit_log,
                          Unit(category.category_id, 0, llm, Failed(o), Failed(o),
                               MissingKeys(o) \/ (~Failed(o) /\ "category" \notin DOMAIN o),
                               o, category_result))
                   /\ IF "category" \in DOMAIN category_result
                      THEN /\ scores' = Get(category_result, "scores", EmptyDict) @@ scores
                           /\ categories' = (category.category_id :> category_result.category)
                                            @@ categories
                           /\ cat_i' = cat_i + 1
                           /\ UNCHANGED <<pc, result, raised>>
                      ELSE /\ Escape("KeyError")
                           /\ scores' = Get(category_result, "scores", EmptyDict) @@ scores
                           /\ UNCHANGED <<categories, cat_i>>
    /\ UNCHANGED pure_vars
    /\ UNCHANGED <<rubric, transcript, llm, path, chunks, chunk_i, chunk_results,
                   category_scores, category_results>>

\* The end of _evaluate_complex_rubric_chunked (lines 2080-2101).
FinishComplexRubric ==
    /\ pc = "run" /\ path = "category_only"
    /\ cat_i > Len(rubric.categories)
    /\ Return([scores |-> scores,
               overall |-> OverallOf(rubric, categories),
               categories |-> categories,
               short_summary |-> <<"Evaluated ", NumStr(Cardinality(DOMAIN categories)),
                                   " categories with ",
                                   NumStr(Cardinality(DOMAIN scores)), " criteria">>])
    /\ UNCHANGED pure_vars
    /\ UNCHANGED <<rubric, transcript, llm, path, chunks, cat_i, chunk_i,
                   chunk_results, scores, categories, category_scores,
                   category_results, calls, unit_log>>

\* The fallback of _evaluate_single_category_in_chunk (lines 1800-1809).
fallback_category_in_chunk(category, chunk_num) ==
    [scores |-> FallbackScores(category.criteria, FallbackConfidence,
                    <<Marker, " for category ", category.label, " in chunk ",
                      NumStr(chunk_num)>>)]

\* The except branch of the both-axes loop (lines 1621-1629).
fallback_except_in_chunk(category, chunk_num) ==
    [scores |-> FallbackScores(category.criteria, FallbackConfidence,
                    <<Marker, " for chunk ", NumStr(chunk_num)>>)]

\* category_scores[criterion_id].append(score_data) for every entry.
MergeScores(acc, new) ==
    [id \in DOMAIN acc \cup DOMAIN new |->
        IF id \in DOMAIN new
        THEN Append(Get(acc, id, <<>>), new[id])
        ELSE acc[id]]

\* One iteration of the inner loop of
\* _evaluate_transcript_and_category_chunked (lines 1608-1629).
EvaluateSingleCategoryInChunk ==
    /\ pc = "run" /\ path = "both"
    /\ cat_i <= Len(rubric.categories)
    /\ chunk_i <= Len(chunks)
    /\ LET category == rubric.categories[cat_i]
       IN  IF PromptRaises(category)
           THEN /\ category_scores' =
                       MergeScores(category_scores,
                                   fallback_except_in_chunk(category, chunk_i).scores)
                /\ unit_log' = Append(unit_log,
                       Unit(category.category_id, chunk_i, FALSE, FALSE, TRUE, FALSE,
                            CallFailed, fallback_except_in_chunk(category, chunk_i)))
                /\ UNCHANGED calls
           ELSE
             \E o \in Outcomes(CategoryChunkResponses(category)) :
               \E chunk_result \in
                     {IF Failed(o) THEN fallback_category_in_chunk(category, chunk_i)
                      ELSE normalize_new_format_result(rubric, o)} :
                   /\ category_scores' = MergeScores(category_scores, chunk_result.scores)
                   /\ unit_log' = Append(unit_log,
                          Unit(category.category_id, chunk_i, llm, Failed(o), Failed(o),
                               MissingKeys(o), o, chunk_result))
                   /\ calls' = calls + Sent
    /\ chunk_i' = chunk_i + 1
    /\ UNCHANGED pure_vars
    /\ UNCHANGED <<rubric, transcript, llm, pc, path, chunks, cat_i, chunk_results,
                   scores, categories, category_results, result, raised>>

\* Lines 1631-1667, after the chunks of one category.
AggregateCategory ==
    /\ pc = "run" /\ path = "both"
    /\ cat_i <= Len(rubric.categories)
    /\ chunk_i > Len(chunks)
    /\ LET category == rubric.categories[cat_i]
           a == aggregate_category(rubric, category, category_scores)
       IN  IF a.raised = "none"
           THEN /\ category_results' = Append(category_results,
                       [category_id |-> category.category_id, result |-> a.value])
                /\ cat_i' = cat_i + 1
                /\ chunk_i' = 1
                /\ category_scores' = EmptyDict
                /\ UNCHANGED <<pc, result, raised>>
           ELSE /\ Escape(a.raised)
                /\ UNCHANGED <<category_results, cat_i, chunk_i, category_scores>>
    /\ UNCHANGED pure_vars
    /\ UNCHANGED <<rubric, transcript, llm, path, chunks, chunk_results, scores,
                   categories, calls, unit_log>>

\* all_scores.update(...) over category_results in insertion order.
RECURSIVE MergeAllScores(_)
MergeAllScores(results) ==
    IF results = <<>> THEN EmptyDict
    ELSE results[Len(results)].result.scores
         @@ MergeAllScores(SubSeq(results, 1, Len(results) - 1))

\* The end of _evaluate_transcript_and_category_chunked (lines 1669-1698).
MergeCategoryResults ==
    /\ pc = "run" /\ path = "both"
    /\ cat_i > Len(rubric.categories)
    /\ LET all_scores == MergeAllScores(category_results)
           all_categories ==
               [c \in {category_results[k].category_id : k \in DOMAIN category_results} |->
                   category_results[CHOOSE k \in DOMAIN category_results :
                       category_results[k].category_id = c].result.category]
       IN  Return([scores |-> all_scores,
                   overall |-> OverallOf(rubric, all_categories),
                   categories |-> all_categories,
                   short_summary |-> <<"Evaluated ",
                        NumStr(Cardinality(DOMAIN all_categories)),
                        " categories across ", NumStr(Len(chunks)),
                        " transcript chunks">>])
    /\ UNCHANGED pure_vars
    /\ UNCHANGED <<rubric, transcript, llm, path, chunks, cat_i, chunk_i,
                   chunk_results, scores, categories, category_scores,
                   category_results, calls, unit_log>>

Next ==
    \/ Dispatch
    \/ EvaluateOldSingle
    \/ EvaluateSingleChunkOld
    \/ AggregateChunkResultsOld
    \/ EvaluateSimpleRubric
    \/ EvaluateSingleChunk
    \/ AggregateChunkResults
    \/ EvaluateSingleCategory
    \/ FinishComplexRubric
    \/ EvaluateSingleCategoryInChunk
    \/ AggregateCategory
    \/ MergeCategoryResults

Spec == Init /\ [][Next]_vars

(***************************************************************************)
(* Properties of the returned evaluation                                   *)
(***************************************************************************)
Done == pc = "done"

Terminal == pc \in {"done", "raised"}

HasOverall(keys) ==
    "overall" \in DOMAIN result /\ keys \subseteq DOMAIN result.overall

\* pct is a number with one decimal place that is within 0.05 of 100 * t / m.
IsRounded1(pct, t, m) ==
    /\ IsNumeric(pct)
    /\ m > 0
    /\ (10 * pct.n) % pct.d = 0
    /\ 20 * Abs(pct.n * m - 100 * t * pct.d) <= pct.d * m

\* The largest max_points the rubric gives a criterion id (0 if it has none).
MaxPointsOf(id) ==
    LET crits == FlattenCriteria(rubric.categories)
    IN  MaxInts([i \in DOMAIN crits |->
                    IF crits[i].criterion_id = id THEN crits[i].max_points ELSE 0])

\* The sum of the points of the categories of a result.
CategoryTotal(r) == SumFn([c \in DOMAIN r.categories |-> r.categories[c].points])

\* C1: in every returned hierarchical result, on all four paths and for any
\* scorer output, 0 <= overall.total_points <= overall.max_points and
\* overall.percentage is 100 * total_points / max_points rounded to one
\* decimal place.
C1_TotalsBounded ==
    (Done /\ IsNewFormat(rubric)) =>
        /\ HasOverall({"total_points", "max_points", "percentage"})
        /\ 0 <= result.overall.total_points
        /\ result.overall.total_points <= result.overall.max_points
        /\ IsRounded1(result.overall.percentage, result.overall.total_points,
                      result.overall.max_points)

\* C2: in every returned hierarchical result, each category's points is the
\* sum of the clamped scores of that category's criteria and total_points is
\* the sum of the categories' points; no figure reported by the scorer for a
\* category or for the whole is copied into the result.
C2_PointsRecomputed ==
    (Done /\ IsNewFormat(rubric)) =>
        /\ {"scores", "categories"} \subseteq DOMAIN result
        /\ HasOverall({"total_points"})
        /\ \A k \in DOMAIN rubric.categories :
             LET c == rubric.categories[k]
                 ids == CriterionIds(c.criteria) \cap DOMAIN result.scores
             IN  /\ c.category_id \in DOMAIN result.categories
                 /\ result.categories[c.category_id].points =
                        SumFn([id \in ids |->
                                 Max2(0, Min2(PyRound(result.scores[id].score),
                                              MaxPointsOf(id)))])
        /\ result.overall.total_points = CategoryTotal(result)

\* C3: whatever raw score the scorer returns for a criterion (999, negative,
\* not an integer, not a number), the score stored in the returned result is
\* an integer between 0 and the criterion's max_points, on the single-call
\* path as on the others.
C3_ScoresClamped ==
    (Done /\ IsNewFormat(rubric)) =>
        /\ "scores" \in DOMAIN result
        /\ \A id \in DOMAIN result.scores :
             LET s == Get(result.scores[id], "score", NonNumeric)
             IN  IsInt(s) /\ 0 <= s.n /\ s.n <= MaxPointsOf(id)

\* C4: the returned overall.pass_status is the one the thresholds give for
\* the evaluator's own total (the sum of the categories' points for a
\* hierarchical rubric, the weighted mean of the returned scores for a flat
\* one), on every path; the pass_status the scorer asserts never decides it.
C4_StatusRecomputed ==
    Done =>
        /\ HasOverall({"pass_status"})
        /\ "scores" \in DOMAIN result
        /\ IF IsNewFormat(rubric)
           THEN /\ "categories" \in DOMAIN result
                /\ result.overall.pass_status =
                       PassStatus(IntNum(CategoryTotal(result)), rubric.thresholds)
           ELSE /\ \A id \in Range(PromptIds(rubric)) :
                       /\ id \in DOMAIN result.scores
                       /\ "score" \in DOMAIN result.scores[id]
                       /\ IsNumeric(result.scores[id].score)
                /\ result.overall.pass_status =
                       PassStatus(WeightedScore(rubric, result.scores),
                                  rubric.thresholds)

\* No unit of the run obtained a response from the scorer.
AllCallsFailed ==
    \A i \in DOMAIN unit_log : ~(unit_log[i].called /\ ~unit_log[i].failed)

StatusValues == {"pass", "revise", "fail"}

\* C5: for every validated rubric and every transcript (empty and longer
\* than 4000 characters included), when every scoring call fails the
\* evaluation returns normally, the result has a 'scores' entry for every
\* criterion of the rubric and overall.pass_status is pass, revise or fail.
C5_AllFailReturns ==
    (Terminal /\ AllCallsFailed) =>
        /\ Done
        /\ "scores" \in DOMAIN result
        /\ \A id \in Range(PromptIds(rubric)) : id \in DOMAIN result.scores
        /\ HasOverall({"pass_status"})
        /\ result.overall.pass_status \in StatusValues

\* C6: a response that parses but lacks an expected key (the 'category'
\* object, the 'scores' object, an entry's 'confidence' or 'note') is
\* treated like a failed call: the unit receives the conservative fallback
\* and the evaluation returns without raising.
C6_MissingKeysFallBack ==
    IsNewFormat(rubric) =>
        /\ \A i \in DOMAIN unit_log : unit_log[i].missing => unit_log[i].fallback
        /\ (\E i \in DOMAIN unit_log : unit_log[i].missing) => raised # "KeyError"

MultiUnitPaths == {"chunk_only", "category_only", "both", "flat_chunked"}

\* The number of units the path decomposes the evaluation into.
ExpectedUnits ==
    CASE path \in {"chunk_only", "flat_chunked"} -> Len(chunks)
      [] path = "category_only" -> Len(rubric.categories)
      [] path = "both" -> Len(rubric.categories) * Len(chunks)
      [] OTHER -> 1

\* C7: on every multi-unit path, when the scoring call of a unit fails the
\* run is not aborted: all units are evaluated, the failed unit contributes
\* its fallback scores and one aggregated result is returned.
C7_FailureIsolated ==
    (Terminal /\ path \in MultiUnitPaths
       /\ \E i \in DOMAIN unit_log : unit_log[i].failed) =>
        /\ Done
        /\ Len(unit_log) = ExpectedUnits
        /\ \A i \in DOMAIN unit_log : unit_log[i].failed => unit_log[i].fallback

\* Unit i is one of the units the returned entry of criterion id is made
\* from: it scored id, and no unit of a later category scored id as well.
Contributes(i, id) ==
    /\ id \in unit_log[i].ids
    /\ \A j \in DOMAIN unit_log :
         (j > i /\ id \in unit_log[j].ids) => unit_log[j].cat = unit_log[i].cat

HasMarker(id) ==
    /\ "note" \in DOMAIN result.scores[id]
    /\ Contains(result.scores[id].note, Marker)

\* C8: whenever the returned score of a criterion includes the contribution
\* of at least one fallback unit, its note contains 'Auto-generated
\* conservative score'; when every scoring call fails, every note does.
C8_FallbackNoteMarked ==
    (Done /\ "scores" \in DOMAIN result) =>
        \A id \in DOMAIN result.scores :
            \/ HasMarker(id)
            \/ /\ ~AllCallsFailed
               /\ \A i \in DOMAIN unit_log :
                    ~(unit_log[i].fallback /\ Contributes(i, id))

\* A criterion scored from one fallback unit and one scored unit, with the
\* marker in its aggregated note.
C8_Witness ==
    /\ Done /\ path = "both"
    /\ \E id \in DOMAIN result.scores :
         /\ HasMarker(id)
         /\ \E i, j \in DOMAIN unit_log :
              /\ Contributes(i, id) /\ unit_log[i].fallback
              /\ Contributes(j, id) /\ ~unit_log[j].fallback

RubricMaxSum ==
    LET crits == FlattenCriteria(rubric.categories)
    IN  SumInts([i \in DOMAIN crits |-> crits[i].max_points])

DistinctIds ==
    LET crits == FlattenCriteria(rubric.categories)
    IN  Cardinality(CriterionIds(crits)) = Len(crits)

FlatWeightSum ==
    SumNums([i \in 1..Len(rubric.criteria) |-> rubric.criteria[i].weight])

\* C10: for a flat rubric with thresholds pass 6.5 / revise 5.0 and weights
\* that sum to 1, when the scorer is unavailable every criterion is scored
\* 6, the weighted score is 6.0 and pass_status is 'revise', for short
\* transcripts and for chunked ones alike.
C10_FlatFallbackRevise ==
    (Terminal /\ ~IsNewFormat(rubric) /\ AllCallsFailed
       /\ rubric.thresholds = [pass |-> Rat(13, 2), revise |-> IntNum(5)]
       /\ FlatWeightSum = IntNum(1)) =>
        /\ Done
        /\ "scores" \in DOMAIN result
        /\ \A id \in Range(PromptIds(rubric)) :
             /\ id \in DOMAIN result.scores
             /\ result.scores[id].score = IntNum(6)
        /\ HasOverall({"weighted_score", "pass_status"})
        /\ result.overall.weighted_score = IntNum(6)
        /\ result.overall.pass_status = "revise"

\* A chunked flat evaluation in which both chunks fell back.
C10_Witness ==
    /\ Done /\ path = "flat_chunked"
    /\ Len(unit_log) = 2 /\ AllCallsFailed
    /\ result.overall.pass_status = "revise"
    /\ \A id \in DOMAIN result.scores : result.scores[id].score = IntNum(6)

(***************************************************************************)
(* validate_rubric.  A verdict is the pair the code returns: valid, and    *)
(* the error message as a token sequence (the set of missing fields that   *)
(* some messages end with is left out).                                    *)
(***************************************************************************)
Accept == [valid |-> TRUE, error |-> <<>>]

Reject(message) == [valid |-> FALSE, error |-> message]

NoError == <<>>

Verdict(error) == IF error = NoError THEN Accept ELSE Reject(error)

RECURSIVE FirstError(_)
\* the loops return at the first failing check
FirstError(errors) ==
    IF errors = <<>> THEN NoError
    ELSE IF Head(errors) # NoError THEN Head(errors)
    ELSE FirstError(Tail(errors))

\* 0.99 <= total <= 1.01
WeightsSumToOne(total) == NumGeq(total, Rat(99, 100)) /\ NumGeq(Rat(101, 100), total)

\* weight < 0 or weight > 1
WeightOutOfRange(w) == ~NumGeq(w, IntNum(0)) \/ ~NumGeq(IntNum(1), w)

SeenBefore(items, k, key) ==
    \E h \in 1..(k - 1) : key \in DOMAIN items[h] /\ items[h][key] = items[k][key]

NewCriterionError(category, j) ==
    IF ~({"criterion_id", "label", "max_points"} \subseteq DOMAIN category.criteria[j])
    THEN <<"Category '", category.category_id, "' criterion ", NumStr(j - 1),
           " missing required fields">>
    ELSE IF SeenBefore(category.criteria, j, "criterion_id")
    THEN <<"Duplicate criterion ID in category '", category.category_id, "': ",
           category.criteria[j].criterion_id>>
    ELSE IF category.criteria[j].max_points <= 0
    THEN <<"Criterion '", category.criteria[j].criterion_id,
           "' max_points must be positive">>
    ELSE NoError

CategoryPoints(category) ==
    SumInts([j \in 1..Len(category.criteria) |-> category.criteria[j].max_points])

\* the criteria loop of one category, then the check of the category's sum
CategoryCriteriaError(category, criterion_error) ==
    IF criterion_error # NoError THEN criterion_error
    ELSE IF CategoryPoints(category) # category.max_points
    THEN <<"Category '", category.category_id, "' max_points (",
           NumStr(category.max_points), ") must equal sum of criterion max_points (",
           NumStr(CategoryPoints(category)), ")">>
    ELSE NoError

CategoryError(cats, i) ==
    IF ~({"category_id", "label", "weight", "max_points", "criteria"}
            \subseteq DOMAIN cats[i])
    THEN <<"Category ", NumStr(i - 1), " missing required fields">>
    ELSE IF SeenBefore(cats, i, "category_id")
    THEN <<"Duplicate category ID: ", cats[i].category_id>>
    ELSE IF ~IsNumeric(cats[i].weight)
    THEN <<"Category '", cats[i].category_id, "' weight must be a number">>
    ELSE IF WeightOutOfRange(cats[i].weight)
    THEN <<"Category '", cats[i].category_id, "' weight must be between 0 and 1">>
    ELSE IF cats[i].max_points <= 0
    THEN <<"Category '", cats[i].category_id, "' max_points must be positive">>
    ELSE IF cats[i].criteria = <<>>
    THEN <<"Category '", cats[i].category_id, "' criteria must be a non-empty list">>
    ELSE CategoryCriteriaError(cats[i],
            FirstError([j \in 1..Len(cats[i].criteria) |->
                            NewCriterionError(cats[i], j)]))

TotalWeight(items) ==
    SumNums([i \in 1..Len(items) |-> items[i].weight])

\* total_max_points: accumulated over the categories, compared with nothing
TotalMaxPoints(cats) ==
    SumInts([i \in 1..Len(cats) |-> cats[i].max_points])

CategoryWeightsError(cats) ==
    IF ~WeightsSumToOne(TotalWeight(cats))
    THEN <<"Category weights must sum to 1.0">>
    ELSE NoError

ScaleError(scale) ==
    IF ~({"min", "max"} \subseteq DOMAIN scale)
    THEN <<"scale must have 'min' and 'max' keys">>
    ELSE IF scale.min >= scale.max THEN <<"scale min must be less than max">>
    ELSE NoError

ThresholdsError(thresholds) ==
    IF ~({"pass", "revise"} \subseteq DOMAIN thresholds)
    THEN <<"thresholds must have 'pass' and 'revise' keys">>
    ELSE IF ~IsNumeric(thresholds.pass) \/ ~IsNumeric(thresholds.revise)
    THEN <<"thresholds must be numbers">>
    ELSE IF NumGeq(thresholds.revise, thresholds.pass)
    THEN <<"revise threshold must be less than pass threshold">>
    ELSE NoError

\* what follows the loop over the items: weights, scale, thresholds
AfterLoopError(weights_error, r) ==
    IF weights_error # NoError THEN weights_error
    ELSE IF ScaleError(r.scale) # NoError THEN ScaleError(r.scale)
    ELSE ThresholdsError(r.thresholds)

NewFormatError(r, loop_error) ==
    IF loop_error # NoError THEN loop_error
    ELSE AfterLoopError(CategoryWeightsError(r.categories), r)

validate_new_rubric_format(r) ==
    IF r.categories = <<>> THEN Reject(<<"categories must be a non-empty list">>)
    ELSE Verdict(NewFormatError(r,
            FirstError([i \in 1..Len(r.categories) |-> CategoryError(r.categories, i)])))

OldCriterionError(criteria, i) ==
    IF ~({"id", "label", "desc", "weight"} \subseteq DOMAIN criteria[i])
    THEN <<"Criterion ", NumStr(i - 1), " missing required fields">>
    ELSE IF SeenBefore(criteria, i, "id")
    THEN <<"Duplicate criterion ID: ", criteria[i].id>>
    ELSE IF ~IsNumeric(criteria[i].weight)
    THEN <<"Criterion '", criteria[i].id, "' weight must be a number">>
    ELSE IF WeightOutOfRange(criteria[i].weight)
    THEN <<"Criterion '", criteria[i].id, "' weight must be between 0 and 1">>
    ELSE NoError

CriterionWeightsError(criteria) ==
    IF ~WeightsSumToOne(TotalWeight(criteria))
    THEN <<"Criterion weights must sum to 1.0">>
    ELSE NoError

OldFormatError(r, loop_error) ==
    IF loop_error # NoError THEN loop_error
    ELSE AfterLoopError(CriterionWeightsError(r.criteria), r)

validate_old_rubric_format(r) ==
    IF r.criteria = <<>> THEN Reject(<<"criteria must be a non-empty list">>)
    ELSE Verdict(OldFormatError(r,
            FirstError([i \in 1..Len(r.criteria) |-> OldCriterionError(r.criteria, i)])))

has_old_format(r) ==
    {"criteria", "scale", "overall_method", "thresholds"} \subseteq DOMAIN r

has_new_format(r) ==
    {"rubric_id", "name", "version", "categories", "scale", "thresholds"}
        \subseteq DOMAIN r

validate_rubric(r) ==
    IF ~(has_old_format(r) \/ has_new_format(r))
    THEN Reject(<<"Rubric must have either old format keys or new format keys">>)
    ELSE IF has_new_format(r) THEN validate_new_rubric_format(r)
    ELSE validate_old_rubric_format(r)

(***************************************************************************)
(* Candidate rubrics handed to validate_rubric                             *)
(***************************************************************************)
CandidateCategory(id, w, m, crits) ==
    [category_id |-> id, label |-> id, weight |-> w, max_points |-> m,
     criteria |-> crits]

\* Categories that pass every check of the loop, or fail only the sum check.
PlainCategories ==
    { CandidateCategory(id, w, mc[1], mc[2]) :
        id \in {"A", "B"}, w \in {Rat(1, 2), IntNum(1)},
        mc \in { <<5, <<Criterion("c1", 5)>> >>,
                 <<8, <<Criterion("c1", 5), Criterion("c2", 3)>> >>,
                 <<8, <<Criterion("c1", 5)>> >> } }

\* Categories that each fail one check of the loop.
BrokenCategories ==
    { [category_id |-> "B", label |-> "B", weight |-> Rat(1, 2), max_points |-> 5],
      CandidateCategory("B", NonNumeric, 5, <<Criterion("c1", 5)>>),
      CandidateCategory("B", Rat(3, 2), 5, <<Criterion("c1", 5)>>),
      CandidateCategory("B", Rat(1, 2), 0, <<Criterion("c1", 5)>>),
      CandidateCategory("B", Rat(1, 2), 5, <<>>),
      CandidateCategory("B", Rat(1, 2), 5,
                        <<[criterion_id |-> "c1", max_points |-> 5]>>),
      CandidateCategory("B", Rat(1, 2), 8,
                        <<Criterion("c1", 5), Criterion("c1", 3)>>),
      CandidateCategory("B", Rat(1, 2), 5,
                        <<Criterion("c1", 5), Criterion("c2", 0)>>) }

CandidateCategories == PlainCategories \cup BrokenCategories

MaxCategories == 2

CandidateCategoryLists ==
    UNION { [1..k -> CandidateCategories] : k \in 0..MaxCategories }

CandidateScales ==
    { [min |-> 0, max |-> 5], [min |-> 0, max |-> 13], [min |-> 5, max |-> 5],
      [min |-> 0] }

CandidateThresholds ==
    { [pass |-> IntNum(4), revise |-> IntNum(2)],
      [pass |-> IntNum(2), revise |-> IntNum(2)],
      [pass |-> NonNumeric, revise |-> IntNum(2)],
      [pass |-> IntNum(4)] }

HierarchicalCandidates ==
    { [rubric_id |-> "cand", name |-> "cand", version |-> "1.0",
       categories |-> cats, scale |-> scale, thresholds |-> thresholds] :
        cats \in CandidateCategoryLists, scale \in CandidateScales,
        thresholds \in CandidateThresholds }

FlatCandidates ==
    { Flat(crits, Rat(13, 2), IntNum(5)) :
        crits \in { <<>>,
                    <<FlatCriterion("a", Rat(1, 2)), FlatCriterion("b", Rat(1, 2))>>,
                    <<FlatCriterion("a", Rat(1, 2)), FlatCriterion("a", Rat(1, 2))>>,
                    <<FlatCriterion("a", Rat(1, 2)), FlatCriterion("b", Rat(1, 4))>>,
                    <<FlatCriterion("a", Rat(3, 2))>>,
                    <<FlatCriterion("a", NonNumeric)>>,
                    <<[id |-> "a", label |-> "a", weight |-> IntNum(1)]>> } }

\* A rubric with the keys of both formats, a flat rubric that also carries
\* 'categories', and rubrics with the keys of neither.
MixedCandidates ==
    { SmallRubric @@ FlatRubric,
      [categories |-> SmallRubric.categories] @@ FlatRubric,
      [criteria |-> FlatRubric.criteria, scale |-> FlatRubric.scale,
       thresholds |-> FlatRubric.thresholds],
      [rubric_id |-> "cand", name |-> "cand", categories |-> SmallRubric.categories,
       scale |-> SmallRubric.scale, thresholds |-> SmallRubric.thresholds] }

Candidates ==
    HierarchicalCandidates \cup FlatCandidates \cup MixedCandidates \cup Rubrics
        \cup {SingleRubric}

(***************************************************************************)
(* The validator applied to one candidate                                  *)
(***************************************************************************)
Validate ==
    /\ verdict = NoVerdict
    /\ verdict' = validate_rubric(candidate)
    /\ UNCHANGED candidate
    /\ UNCHANGED not_validator_vars

InitValidate ==
    /\ EvalIdle
    /\ ChunkerIdle /\ AggregatorIdle /\ FeedbackIdle /\ ListerIdle
    /\ candidate \in Candidates
    /\ verdict = NoVerdict

NextValidate == Validate

SpecValidate == InitValidate /\ [][NextValidate]_vars

Validated == verdict # NoVerdict

\* Every rubric the evaluator is started with is one validate_rubric accepts.
RubricsAreValid ==
    (Validated /\ candidate \in Rubrics \cup {SingleRubric}) => verdict.valid

\* C11: validate_rubric accepts a hierarchical rubric only if the sum of its
\* categories' max_points equals scale.max; a rubric whose category total
\* differs from scale.max is rejected with an error.
C11_TotalEqualsScaleMax ==
    (Validated /\ has_new_format(candidate) /\ verdict.valid)
        => TotalMaxPoints(candidate.categories) = candidate.scale.max

(***************************************************************************)
(* _chunk_transcript, one loop iteration per step                          *)
(***************************************************************************)
MaxTextLen == 4

RECURSIVE TextsOfLen(_)
\* every text of k characters over a letter and a sentence end
TextsOfLen(k) ==
    IF k = 0 THEN { <<>> }
    ELSE { <<[ch |-> c, n |-> 1]>> \o t : c \in {"a", "."}, t \in TextsOfLen(k - 1) }

\* The short inputs, with every chunk_size up to the longest text and every
\* overlap up to one more, and the input of the documented test: chunk_size
\* 100 and overlap 150 on 1000 characters.
ChunkerInputs ==
    { [text |-> t, chunk_size |-> c, overlap |-> o] :
        t \in UNION { TextsOfLen(k) : k \in 0..MaxTextLen },
        c \in 1..MaxTextLen, o \in 0..(MaxTextLen + 1) }
    \cup
    { [text |-> Letters(1000), chunk_size |-> 100, overlap |-> 150] }

InitChunk ==
    /\ EvalIdle
    /\ ValidatorIdle /\ AggregatorIdle /\ FeedbackIdle /\ ListerIdle
    /\ ChunkerIdle

\* _chunk_transcript(transcript, chunk_size, overlap) is called
CallChunker ==
    /\ ck_pc = "idle"
    /\ \E input \in ChunkerInputs :
          /\ ck_text' = input.text
          /\ ck_size' = input.chunk_size
          /\ ck_overlap' = input.overlap
    /\ ck_pc' = "call"
    /\ UNCHANGED <<ck_start, ck_windows, ck_chunks>>
    /\ UNCHANGED not_chunker_vars

\* if len(transcript) <= chunk_size: return [transcript]
ReturnWhole ==
    /\ ck_pc = "call"
    /\ TextLen(ck_text) <= ck_size
    /\ ck_chunks' = <<[lo |-> 0, hi |-> TextLen(ck_text)]>>
    /\ ck_pc' = "done"
    /\ UNCHANGED <<ck_text, ck_size, ck_overlap, ck_start, ck_windows>>
    /\ UNCHANGED not_chunker_vars

\* chunks = []; start = 0; the loop condition holds (the text is not empty)
EnterLoop ==
    /\ ck_pc = "call"
    /\ TextLen(ck_text) > ck_size
    /\ ck_start' = 0
    /\ ck_chunks' = <<>>
    /\ ck_pc' = IF 0 < TextLen(ck_text) THEN "loop" ELSE "done"
    /\ UNCHANGED <<ck_text, ck_size, ck_overlap, ck_windows>>
    /\ UNCHANGED not_chunker_vars

\* one iteration of the while loop, lines 1096-1123
Iterate ==
    /\ ck_pc = "loop"
    /\ \E end \in {WindowEnd(ck_text, ck_size, ck_start)} :
          /\ ck_windows' = Append(ck_windows, [start |-> ck_start, end |-> end])
          /\ ck_chunks' = AppendChunk(ck_chunks, StripRange(ck_text, ck_start, end))
          /\ ck_start' = NextStart(ck_start, end, ck_overlap)
    /\ ck_pc' = IF ck_start' >= TextLen(ck_text) THEN "done" ELSE "loop"
    /\ UNCHANGED <<ck_text, ck_size, ck_overlap>>
    /\ UNCHANGED not_chunker_vars

NextChunk == CallChunker \/ ReturnWhole \/ EnterLoop \/ Iterate

SpecChunk == InitChunk /\ [][NextChunk]_vars

\* The loop is scheduled until it returns: nothing else runs in the call.
FairSpecChunk == SpecChunk /\ WF_vars(NextChunk)

\* The steps compute what the function computes as a whole.
StepsAgreeWithFunction ==
    (ck_pc = "done" /\ TextLen(ck_text) <= MaxTextLen)
        => ck_chunks = chunk_transcript(ck_text, ck_size, ck_overlap)

\* C12: _chunk_transcript terminates for every text, chunk_size >= 1 and
\* overlap >= 0, overlap >= chunk_size included: the window start strictly
\* increases in every iteration, the loop runs at most len(text) times, and
\* the call returns.
C12_ChunkerTerminates ==
    /\ [][ck_pc = "loop" => ck_start' > ck_start]_vars
    /\ [](Len(ck_windows) <= TextLen(ck_text))
    /\ <>(ck_pc = "done")

\* chunk_size 100 and overlap 150 on 1000 characters: returned after as many
\* iterations as the text has characters.
C12_Witness ==
    /\ ck_pc = "done"
    /\ ck_size = 100 /\ ck_overlap = 150 /\ TextLen(ck_text) = 1000
    /\ Len(ck_windows) = 1000

\* C13: for a text longer than chunk_size (chunk_size >= 1, overlap >= 0)
\* the windows [start, end) of the loop leave no gap: the first starts at 0,
\* each later window starts at or before the end of the previous one, and
\* the last one reaches the end of the text.
C13_WindowsLeaveNoGap ==
    (ck_pc \in {"loop", "done"} /\ TextLen(ck_text) > ck_size) =>
        /\ ck_pc = "done" => ck_windows # <<>>
        /\ ck_windows # <<>> => ck_windows[1].start = 0
        /\ \A i \in 2..Len(ck_windows) :
              ck_windows[i].start <= ck_windows[i - 1].end
        /\ ck_pc = "done" =>
              ck_windows[Len(ck_windows)].end >= TextLen(ck_text)

\* A returned call of several windows, one of them cut at a sentence end
\* before start + chunk_size, with an overlap.
C13_Witness ==
    /\ ck_pc = "done"
    /\ TextLen(ck_text) > ck_size
    /\ ck_overlap > 0
    /\ Len(ck_windows) >= 3
    /\ \E i \in 1..Len(ck_windows) :
          ck_windows[i].end < ck_windows[i].start + ck_size

(***************************************************************************)
(* _aggregate_chunk_results and _aggregate_chunk_results_old called twice  *)
(* on one list                                                             *)
(***************************************************************************)
\* A variant that consumes the results it has read.
ChunkResultsAfter_Consumed(partials) == <<>>

\* The list after a call: both aggregations only read chunk_results and the
\* dicts in it (lines 1922-1937 and 1375-1390); every dict they build is new.
ChunkResultsAfter(partials) == partials

MaxPartials == 2

\* What one unit of the chunk loops can append to chunk_results.
PartialResults(r) ==
    IF IsNewFormat(r)
    THEN {fallback_single_chunk_evaluation(r)}
         \cup {normalize_new_format_result(r, o) :
                 o \in RubricResponses(FlattenCriteria(r.categories))}
    ELSE {fallback_single_chunk_old_evaluation(r)}
         \cup {normalize_new_format_result(r, o) : o \in FlatResponses(r)}
         \cup FlatResponses(r)

InitAggregate ==
    /\ EvalIdle
    /\ ValidatorIdle /\ ChunkerIdle /\ FeedbackIdle /\ ListerIdle
    /\ ag_rubric \in {SmallRubric, DupRubric, FlatRubric}
    /\ ag_given \in UNION { [1..k -> PartialResults(ag_rubric)] : k \in 0..MaxPartials }
    /\ ag_list = ag_given
    /\ ag_returns = <<>>

\* self._aggregate_chunk_results(chunk_results)
CallAggregate ==
    /\ IsNewFormat(ag_rubric)
    /\ Len(ag_returns) < 2
    /\ ag_returns' = Append(ag_returns, aggregate_chunk_results(ag_rubric, ag_list))
    /\ ag_list' = ChunkResultsAfter(ag_list)
    /\ UNCHANGED <<ag_rubric, ag_given>>
    /\ UNCHANGED not_aggregator_vars

\* self._aggregate_chunk_results_old(chunk_results)
CallAggregateOld ==
    /\ ~IsNewFormat(ag_rubric)
    /\ Len(ag_returns) < 2
    /\ ag_returns' = Append(ag_returns, aggregate_chunk_results_old(ag_rubric, ag_list))
    /\ ag_list' = ChunkResultsAfter(ag_list)
    /\ UNCHANGED <<ag_rubric, ag_given>>
    /\ UNCHANGED not_aggregator_vars

NextAggregate == CallAggregate \/ CallAggregateOld

SpecAggregate == InitAggregate /\ [][NextAggregate]_vars

CriterionLabel(r, id) ==
    IF IsNewFormat(r)
    THEN IF \E i \in DOMAIN FlattenCriteria(r.categories) :
               FlattenCriteria(r.categories)[i].criterion_id = id
         THEN <<FlattenCriteria(r.categories)[LastOcc(FlattenCriteria(r.categories), id)].label>>
         ELSE <<"title", id>>
    ELSE IF \E i \in DOMAIN r.criteria : r.criteria[i].id = id
         THEN <<r.criteria[CHOOSE i \in DOMAIN r.criteria :
                              /\ r.criteria[i].id = id
                              /\ \A j \in DOMAIN r.criteria :
                                    r.criteria[j].id = id => j <= i].label>>
         ELSE <<"title", id>>

\* key=lambda x: x[1].get('score', 0)
SortKey(item) == Get(item[2], "score", IntNum(0))

RECURSIVE InsertDescending(_, _)
\* item placed after every item whose key is not smaller: the sort is stable
InsertDescending(item, sorted) ==
    IF sorted = <<>> THEN <<item>>
    ELSE IF NumGeq(SortKey(Head(sorted)), SortKey(item))
    THEN <<Head(sorted)>> \o InsertDescending(item, Tail(sorted))
    ELSE <<item>> \o sorted

RECURSIVE SortInto(_, _)
SortInto(items, sorted) ==
    IF items = <<>> THEN sorted
    ELSE SortInto(Tail(items), InsertDescending(Head(items), sorted))

\* sorted(scores.items(), key=..., reverse=True)
sorted_scores(items) == SortInto(items, <<>>)

\* sorted_scores[:2]
FirstTwo(s) == SubSeq(s, 1, Min2(2, Len(s)))

\* sorted_scores[-2:]
LastTwo(s) == SubSeq(s, Max2(1, Len(s) - 1), Len(s))

Strength(r, item) ==
    [title |-> CriterionLabel(r, item[1]),
     description |-> [scored |-> SortKey(item),
                      text |-> Get(item[2], "note", <<"Good performance in this area.">>)]]

Improvement(r, item) ==
    [title |-> CriterionLabel(r, item[1]),
     description |-> [scored |-> SortKey(item),
                      text |-> <<"Consider focusing on improving this aspect.">>]]

\* tone = 'congratulatory' if is_passing else 'supportive'
Tone(status) == IF status = "pass" THEN "congratulatory" ELSE "supportive"

\* lines 2476-2501
fallback_feedback(r, items, status) ==
    [strengths |-> [k \in 1..Len(FirstTwo(sorted_scores(items))) |->
                       Strength(r, FirstTwo(sorted_scores(items))[k])],
     improvements |-> [k \in 1..Len(LastTwo(sorted_scores(items))) |->
                          Improvement(r, LastTwo(sorted_scores(items))[k])],
     tone |-> Tone(status)]

\* A well-formed answer to the feedback prompt; 'tone' is set by the code.
FeedbackResponses ==
    { [strengths |-> <<[title |-> <<"s1">>, description |-> <<"text">>],
                       [title |-> <<"s2">>, description |-> <<"text">>]>>,
       improvements |-> <<[title |-> <<"i1">>, description |-> <<"text">>],
                          [title |-> <<"i2">>, description |-> <<"text">>]>>] }

\* feedback_data['tone'] = tone; return feedback_data
AnsweredFeedback(response, status) ==
    [strengths |-> response.strengths, improvements |-> response.improvements,
     tone |-> Tone(status)]

FeedbackScores == {IntNum(2), IntNum(5), IntNum(8)}

Orders(ids) ==
    { f \in [1..Cardinality(ids) -> ids] : \A i, j \in DOMAIN f : f[i] = f[j] => i = j }

\* evaluation['scores'] of a rubric: its criteria in any order of insertion
ScoreItems(r) ==
    { [i \in DOMAIN order |-> <<order[i], [score |-> given[i], note |-> <<"note">>]>>] :
        order \in Orders(Range(PromptIds(r))),
        given \in [1..Cardinality(Range(PromptIds(r))) -> FeedbackScores] }

InitFeedback ==
    /\ EvalIdle
    /\ ValidatorIdle /\ ChunkerIdle /\ AggregatorIdle /\ ListerIdle
    /\ fb_rubric \in {SingleRubric, FlatRubric, FlatRubric3, SmallRubric}
    /\ fb_items \in ScoreItems(fb_rubric)
    /\ fb_status \in {"pass", "fail"}
    /\ fb_llm \in BOOLEAN
    /\ fb_feedback = NoResult
    /\ fb_segments = <<>>
    /\ fb_cited = <<>>

\* The value of a key that is present with no value (Python's None).
PyNone == [none |-> TRUE]

\* seg.get('avg_logprob', 0) < -1.0
LowConfidenceThreshold == IntNum(-1)

LowConfidence(seg) ==
    ~NumGeq(Get(seg, "avg_logprob", IntNum(0)), LowConfidenceThreshold)

\* The comparison of line 2383 raises TypeError when the value is None; the
\* comprehension compares every segment before the slice is taken.
ComparisonRaises(segments) ==
    \E i \in DOMAIN segments : Get(segments[i], "avg_logprob", IntNum(0)) = PyNone

\* [:3] of line 2384
CitedLimit == 3

\* low_confidence_segments (lines 2381-2384); no segment when `if segments`
\* fails
low_confidence_segments(segments) ==
    SubSeq(SelectSeq(segments, LowConfidence), 1,
           Min2(CitedLimit, Len(SelectSeq(segments, LowConfidence))))

Raised(e) == [raised |-> e]

\* generate_qualitative_feedback(transcript, evaluation, None, segments):
\* the time references are built outside any try, before the request.
GenerateFeedback ==
    /\ fb_feedback = NoResult
    /\ IF ComparisonRaises(fb_segments)
       THEN /\ fb_feedback' = Raised("TypeError")
            /\ UNCHANGED fb_cited
       ELSE /\ fb_cited' = low_confidence_segments(fb_segments)
            /\ \E o \in (IF fb_llm THEN {CallFailed} \cup FeedbackResponses
                         ELSE {CallFailed}) :
                  fb_feedback' = IF Failed(o)
                                 THEN fallback_feedback(fb_rubric, fb_items, fb_status)
                                 ELSE AnsweredFeedback(o, fb_status)
    /\ UNCHANGED <<fb_rubric, fb_items, fb_status, fb_llm, fb_segments>>
    /\ UNCHANGED not_feedback_vars

NextFeedback == GenerateFeedback

SpecFeedback == InitFeedback /\ [][NextFeedback]_vars

\* Place of item i when the items are ordered by descending score, equal
\* scores in insertion order.
PlaceOf(items, i) ==
    1 + Cardinality({ j \in DOMAIN items :
                        \/ ~NumGeq(SortKey(items[i]), SortKey(items[j]))
                        \/ SortKey(items[j]) = SortKey(items[i]) /\ j < i })

ItemPlaced(items, k) == items[CHOOSE i \in DOMAIN items : PlaceOf(items, i) = k]

\* C15: generate_qualitative_feedback returns exactly two strengths and two
\* improvements, for every validated rubric and every evaluation result; on
\* the fallback path they are the two highest and the two lowest scoring
\* criteria, ties between equal scores in the insertion order of the scores.
C15_TwoStrengthsTwoImprovements ==
    fb_feedback # NoResult =>
        /\ Len(fb_feedback.strengths) = 2
        /\ Len(fb_feedback.improvements) = 2
        /\ ~fb_llm =>
              \A k \in 1..2 :
                 /\ fb_feedback.strengths[k].title
                      = CriterionLabel(fb_rubric, ItemPlaced(fb_items, k)[1])
                 /\ fb_feedback.improvements[k].title
                      = CriterionLabel(fb_rubric,
                            ItemPlaced(fb_items, Len(fb_items) - 2 + k)[1])

\* With two or more scored criteria the feedback is as C15 says.
FeedbackRanksScores ==
    Len(fb_items) >= 2 => C15_TwoStrengthsTwoImprovements

\* C16: for a transcript longer than 4000 characters and a rubric with more
\* than 10 criteria, some returned note differs from the exact string
\* 'Auto-generated conservative score' only if at least one scoring call
\* returned a real result: when every call fell back, every note equals
\* that string.
C16_NoteTellsFallback ==
    (Done /\ path = "both" /\ "scores" \in DOMAIN result) =>
        ((\E id \in DOMAIN result.scores :
             Get(result.scores[id], "note", <<>>) # <<Marker>>)
            => ~AllCallsFailed)

\* C17: the decomposition path is a function of the number n of criteria
\* and the transcript length L only.  Hierarchical: n > 10 and L > 4000
\* decomposes on both axes, n > 10 and L <= 4000 by category only, n <= 10
\* and L > 4000 by chunk only, otherwise a single call; n = 10 and L = 4000
\* are not decomposed.  A flat rubric is chunked iff L > 4000.
C17_PathBySize ==
    pc # "idle" =>
        path = IF IsNewFormat(rubric)
               THEN IF TotalCriteria(rubric) > 10 /\ TextLen(transcript) > 4000
                    THEN "both"
                    ELSE IF TotalCriteria(rubric) > 10 THEN "category_only"
                    ELSE IF TextLen(transcript) > 4000 THEN "chunk_only"
                    ELSE "single"
               ELSE IF TextLen(transcript) > 4000 THEN "flat_chunked"
                    ELSE "flat_single"

\* 10 criteria and 4000 characters: one call, nothing decomposed.
C17_Witness ==
    /\ Done /\ path = "single"
    /\ TotalCriteria(rubric) = 10 /\ TextLen(transcript) = 4000
    /\ Len(unit_log) = 1

\* A unit whose call returned a score within 1..10 for every criterion.
ScoredInScale(i) ==
    /\ unit_log[i].called /\ ~unit_log[i].failed
    /\ "scores" \in DOMAIN unit_log[i].raw
    /\ \A id \in Range(PromptIds(rubric)) :
          /\ id \in DOMAIN unit_log[i].raw.scores
          /\ "score" \in DOMAIN unit_log[i].raw.scores[id]
          /\ IsNumeric(unit_log[i].raw.scores[id].score)
          /\ NumGeq(unit_log[i].raw.scores[id].score, IntNum(1))
          /\ NumGeq(IntNum(10), unit_log[i].raw.scores[id].score)

\* The arithmetic mean of the scores the scorer returned for a criterion.
ReturnedMean(id) ==
    NumDivInt(SumNums([i \in DOMAIN unit_log |-> unit_log[i].raw.scores[id].score]),
              Len(unit_log))

\* C18: for a flat rubric and a transcript longer than 4000 characters, when
\* the scorer returns a score s_i in 1..10 for a criterion on each of the n
\* chunks, the final score of the criterion is the arithmetic mean of the
\* s_i to one decimal, and overall.weighted_score is the weight-weighted
\* mean of those final scores.
C18_FlatChunkedMean ==
    (Terminal /\ path = "flat_chunked" /\ unit_log # <<>>
       /\ \A i \in DOMAIN unit_log : ScoredInScale(i)) =>
        /\ Done
        /\ "scores" \in DOMAIN result
        /\ \A id \in Range(PromptIds(rubric)) :
              /\ id \in DOMAIN result.scores
              /\ result.scores[id].score = PyRound1(ReturnedMean(id))
        /\ HasOverall({"weighted_score"})
        /\ result.overall.weighted_score
              = PyRound1(WeightedScore(rubric,
                    [id \in Range(PromptIds(rubric)) |->
                        [score |-> PyRound1(ReturnedMean(id))]]))

\* The units whose entry for a criterion is part of the returned entry.
ContributingUnits(id) == {i \in DOMAIN unit_log : Contributes(i, id)}

\* Their entries for the criterion, in the order of evaluation.
ContributedEntries(id) ==
    LET units == SelectSeq([i \in 1..Len(unit_log) |-> i],
                           LAMBDA i : Contributes(i, id))
    IN  [k \in 1..Len(units) |-> unit_log[units[k]].entries[id]]

ContributedMean(id) ==
    NumDivInt(SumNums([k \in DOMAIN ContributedEntries(id) |->
                          ContributedEntries(id)[k].score]),
              Len(ContributedEntries(id)))

\* k is an integer nearest to x.
RoundsTo(k, x) == 2 * Abs(k * x.d - x.n) <= x.d

\* score is the mean of the contributed scores rounded to an integer and
\* clamped to [0, max_points] of a criterion with this id.
IsClampedMean(score, id) ==
    \E k \in {ContributedMean(id).n \div ContributedMean(id).d,
              ContributedMean(id).n \div ContributedMean(id).d + 1} :
      \E c \in Range(FlattenCriteria(rubric.categories)) :
          /\ c.criterion_id = id
          /\ RoundsTo(k, ContributedMean(id))
          /\ score = IntNum(Max2(0, Min2(k, c.max_points)))

IsHalf(x) == IsNumeric(x) /\ x.d = 2

\* x rounded to the nearest integer, a half away from zero.
RoundHalfAway(x) ==
    IF x.n >= 0 THEN (2 * x.n + x.d) \div (2 * x.d)
    ELSE -((2 * (-x.n) + x.d) \div (2 * x.d))

\* score is x rounded half away from zero and clamped to [0, max_points] of
\* a criterion with this id.
IsRoundedAway(score, x, id) ==
    \E c \in Range(FlattenCriteria(rubric.categories)) :
        /\ c.criterion_id = id
        /\ score = IntNum(Max2(0, Min2(RoundHalfAway(x), c.max_points)))

\* C20: wherever a score is rounded to an integer (the normalisation of a
\* scorer result and both aggregations of a hierarchical rubric), a value
\* halfway between two integers rounds away from zero: the mean of 2 and 3
\* gives 3, the mean of 0 and 1 gives 1.
C20_HalfRoundsAway ==
    IsNewFormat(rubric) =>
        /\ \A i \in DOMAIN unit_log :
              (unit_log[i].called /\ ~unit_log[i].fallback
                 /\ "scores" \in DOMAIN unit_log[i].raw) =>
                  \A id \in DOMAIN unit_log[i].raw.scores \cap DOMAIN unit_log[i].entries :
                      ("score" \in DOMAIN unit_log[i].raw.scores[id]
                         /\ IsHalf(unit_log[i].raw.scores[id].score)) =>
                          IsRoundedAway(unit_log[i].entries[id].score,
                                        unit_log[i].raw.scores[id].score, id)
        /\ (Done /\ path \in {"chunk_only", "both"} /\ "scores" \in DOMAIN result) =>
              \A id \in {c \in DOMAIN result.scores : ContributingUnits(c) # {}} :
                  IsHalf(ContributedMean(id)) =>
                      IsRoundedAway(result.scores[id].score, ContributedMean(id), id)

\* C21: every fallback entry produced for a criterion of a hierarchical
\* rubric, on every path, has a score equal to 60% of the criterion's
\* max_points and a confidence of exactly 3.
C21_FallbackSixtyPercentConfidenceThree ==
    IsNewFormat(rubric) =>
        \A i \in DOMAIN unit_log :
            unit_log[i].fallback =>
                \A id \in DOMAIN unit_log[i].entries :
                    /\ \E c \in Range(FlattenCriteria(rubric.categories)) :
                          /\ c.criterion_id = id
                          /\ unit_log[i].entries[id].score = Rat(3 * c.max_points, 5)
                    /\ unit_log[i].entries[id].confidence = 3

\* No unit is submitted twice: the requests sent never outnumber the units
\* evaluated so far, the units evaluated never outnumber the units of the
\* path, and no (category, chunk) pair is evaluated twice.
NoUnitSubmittedTwice ==
    /\ calls <= Len(unit_log)
    /\ pc # "idle" => Len(unit_log) <= ExpectedUnits
    /\ \A i, j \in DOMAIN unit_log :
         (unit_log[i].cat = unit_log[j].cat /\ unit_log[i].chunk = unit_log[j].chunk)
             => i = j

\* C22: during one evaluation each unit (the whole transcript, a chunk, a
\* category, a chunk-category pair) is submitted to the scorer at most once,
\* a failed call is never retried, and the total number of scorer calls of
\* the evaluation equals the number of units (chunks times categories on the
\* both-axes path).
C22_OneCallPerUnit ==
    /\ NoUnitSubmittedTwice
    /\ (Terminal /\ llm) => calls = ExpectedUnits

(***************************************************************************)
(* The order of the validator's checks                                     *)
(***************************************************************************)
\* The checks of a hierarchical rubric, numbered in the order of the text of
\* _validate_new_rubric_format.
CategoryFieldsCheck == "01 category required fields"
DuplicateCategoryCheck == "02 duplicate category id"
CategoryWeightCheck == "03 category weight"
CategoryPointsCheck == "04 category max_points positive"
CriteriaListCheck == "05 criteria non-empty"
CriterionFieldsCheck == "06 criterion required fields"
DuplicateCriterionCheck == "07 duplicate criterion id"
CriterionPointsCheck == "08 criterion max_points positive"
CategorySumCheck == "09 category max_points is the sum"
WeightsSumCheck == "10 weights sum to one"
ScaleCheck == "11 scale"
ThresholdsCheck == "12 thresholds"

CheckOrder ==
    <<CategoryFieldsCheck, DuplicateCategoryCheck, CategoryWeightCheck,
      CategoryPointsCheck, CriteriaListCheck, CriterionFieldsCheck,
      DuplicateCriterionCheck, CriterionPointsCheck, CategorySumCheck,
      WeightsSumCheck, ScaleCheck, ThresholdsCheck>>

RankOfCheck(check) == CHOOSE k \in DOMAIN CheckOrder : CheckOrder[k] = check

HasToken(message, token) == \E k \in DOMAIN message : message[k] = token

\* The check an error message reports.
CheckOfError(message) ==
    CASE HasToken(message, "' criterion ") -> CriterionFieldsCheck
      [] HasToken(message, " missing required fields") -> CategoryFieldsCheck
      [] HasToken(message, "Duplicate category ID: ") -> DuplicateCategoryCheck
      [] HasToken(message, "' weight must be a number") -> CategoryWeightCheck
      [] HasToken(message, "' weight must be between 0 and 1") -> CategoryWeightCheck
      [] HasToken(message, "Category '") /\ HasToken(message, "' max_points must be positive")
            -> CategoryPointsCheck
      [] HasToken(message, "' criteria must be a non-empty list") -> CriteriaListCheck
      [] HasToken(message, "Duplicate criterion ID in category '") -> DuplicateCriterionCheck
      [] HasToken(message, "Criterion '") -> CriterionPointsCheck
      [] HasToken(message, ") must equal sum of criterion max_points (") -> CategorySumCheck
      [] HasToken(message, "Category weights must sum to 1.0") -> WeightsSumCheck
      [] HasToken(message, "scale must have 'min' and 'max' keys") -> ScaleCheck
      [] HasToken(message, "scale min must be less than max") -> ScaleCheck
      [] OTHER -> ThresholdsCheck

Has(dict, keys) == keys \subseteq DOMAIN dict

\* Criterion j of category c breaks the check, judged on its own.
CriterionBreaks(c, j, check) ==
    CASE check = CriterionFieldsCheck ->
            ~Has(c.criteria[j], {"criterion_id", "label", "max_points"})
      [] check = DuplicateCriterionCheck ->
            /\ Has(c.criteria[j], {"criterion_id"})
            /\ \E h \in 1..(j - 1) :
                 /\ Has(c.criteria[h], {"criterion_id"})
                 /\ c.criteria[h].criterion_id = c.criteria[j].criterion_id
      [] check = CriterionPointsCheck ->
            Has(c.criteria[j], {"max_points"}) /\ c.criteria[j].max_points <= 0
      [] OTHER -> FALSE

\* Category i breaks the check, judged on its own.
CategoryBreaks(cats, i, check) ==
    CASE check = CategoryFieldsCheck ->
            ~Has(cats[i], {"category_id", "label", "weight", "max_points", "criteria"})
      [] check = DuplicateCategoryCheck ->
            /\ Has(cats[i], {"category_id"})
            /\ \E h \in 1..(i - 1) :
                 /\ Has(cats[h], {"category_id"})
                 /\ cats[h].category_id = cats[i].category_id
      [] check = CategoryWeightCheck ->
            /\ Has(cats[i], {"weight"})
            /\ (~IsNumeric(cats[i].weight) \/ WeightOutOfRange(cats[i].weight))
      [] check = CategoryPointsCheck ->
            Has(cats[i], {"max_points"}) /\ cats[i].max_points <= 0
      [] check = CriteriaListCheck ->
            Has(cats[i], {"criteria"}) /\ cats[i].criteria = <<>>
      [] check = CategorySumCheck ->
            /\ Has(cats[i], {"criteria", "max_points"})
            /\ \A j \in DOMAIN cats[i].criteria : Has(cats[i].criteria[j], {"max_points"})
            /\ CategoryPoints(cats[i]) # cats[i].max_points
      [] OTHER -> FALSE

\* The rubric as a whole breaks the check.
RubricBreaks(r, check) ==
    CASE check = WeightsSumCheck ->
            /\ \A i \in DOMAIN r.categories :
                 Has(r.categories[i], {"weight"}) /\ IsNumeric(r.categories[i].weight)
            /\ ~WeightsSumToOne(TotalWeight(r.categories))
      [] check = ScaleCheck -> ScaleError(r.scale) # NoError
      [] check = ThresholdsCheck -> ThresholdsError(r.thresholds) # NoError
      [] OTHER -> FALSE

\* Every violation of the rubric: the check broken and the place (category
\* index, criterion index; 0 where there is none).
Violations(r) ==
    { v \in [check : Range(CheckOrder), cat : 0..Len(r.categories), crit : 0..2] :
        \/ v.cat = 0 /\ v.crit = 0 /\ RubricBreaks(r, v.check)
        \/ v.cat > 0 /\ v.crit = 0 /\ CategoryBreaks(r.categories, v.cat, v.check)
        \/ /\ v.cat > 0 /\ v.crit > 0
           /\ Has(r.categories[v.cat], {"criteria"})
           /\ v.crit \in DOMAIN r.categories[v.cat].criteria
           /\ CriterionBreaks(r.categories[v.cat], v.crit, v.check) }

HierarchicalRejected ==
    /\ Validated
    /\ has_new_format(candidate)
    /\ candidate.categories # <<>>
    /\ ~verdict.valid

\* C23: for a hierarchical rubric with several violations validate_rubric
\* returns only the first one in the order of the checks: category required
\* fields, duplicate category ID, category weight, category max_points,
\* criterion required fields, duplicate criterion ID, criterion max_points,
\* category sum, weights sum, scale, thresholds; and the message names the
\* offending category_id or criterion_id.
C23_FirstInCheckOrder ==
    HierarchicalRejected =>
        \E v \in Violations(candidate) :
            /\ v.check = CheckOfError(verdict.error)
            /\ \A u \in Violations(candidate) :
                 RankOfCheck(v.check) <= RankOfCheck(u.check)
            /\ v.cat > 0 =>
                 \/ /\ v.crit > 0
                    /\ Has(candidate.categories[v.cat].criteria[v.crit], {"criterion_id"})
                    /\ HasToken(verdict.error,
                                candidate.categories[v.cat].criteria[v.crit].criterion_id)
                 \/ /\ Has(candidate.categories[v.cat], {"category_id"})
                    /\ HasToken(verdict.error, candidate.categories[v.cat].category_id)

\* The place of a violation in the validator's traversal: categories in list
\* order, in each category its own checks, then its criteria in list order,
\* then its sum; the checks of the whole rubric come last.
TraversalKey(r, v) ==
    <<IF v.cat = 0 THEN Len(r.categories) + 1 ELSE v.cat,
      IF v.check = CategorySumCheck THEN 3 ELSE v.crit,
      RankOfCheck(v.check)>>

KeyBefore(a, b) ==
    \/ a[1] < b[1]
    \/ a[1] = b[1] /\ a[2] < b[2]
    \/ a[1] = b[1] /\ a[2] = b[2] /\ a[3] <= b[3]

\* What validate_rubric does return for a rejected hierarchical rubric: the
\* violation met first in the traversal, whatever its rank among the checks.
ReturnsFirstInTraversal ==
    HierarchicalRejected =>
        \E v \in Violations(candidate) :
            /\ v.check = CheckOfError(verdict.error)
            /\ \A u \in Violations(candidate) :
                 KeyBefore(TraversalKey(candidate, v), TraversalKey(candidate, u))

\* A rejected rubric whose first category breaks a criterion check and
\* whose second category breaks a category check.
LaterCheckReportedFirst ==
    /\ HierarchicalRejected
    /\ CheckOfError(verdict.error) = CriterionPointsCheck
    /\ \E u \in Violations(candidate) : u.check = CategoryFieldsCheck

\* The cut of the window that starts at start when the sentence end is
\* looked for in the final `overlap` characters before start + chunk_size.
CutInOverlapRegion(text, chunk_size, overlap, start) ==
    IF LastSentenceEnd(text, Max2(start, start + chunk_size - overlap),
                       start + chunk_size) >= 0
    THEN LastSentenceEnd(text, Max2(start, start + chunk_size - overlap),
                         start + chunk_size) + 1
    ELSE start + chunk_size

\* C24: every chunk boundary that is not the end of the text lies just after
\* the last sentence-terminal character found within the final `overlap`
\* characters before start + chunk_size, and at exactly start + chunk_size
\* when those characters contain none.
C24_CutInOverlapRegion ==
    \A i \in DOMAIN ck_windows :
        ck_windows[i].start + ck_size < TextLen(ck_text) =>
            ck_windows[i].end =
                CutInOverlapRegion(ck_text, ck_size, ck_overlap, ck_windows[i].start)

\* The shape validate_rubric checked the candidate as (lines 70-80).
ValidatedShape(r) == IF has_new_format(r) THEN "hierarchical" ELSE "flat"

\* The shape evaluate_transcript_with_rubric evaluates the rubric as.
DispatchedShape(r, t) ==
    IF PathOf(r, t) \in {"flat_single", "flat_chunked"} THEN "flat" ELSE "hierarchical"

\* C25: every rubric validate_rubric accepts as flat is evaluated by the flat
\* path and every rubric it accepts as hierarchical by the hierarchical
\* path, rubrics that carry keys of both shapes included.
C25_ValidatedShapeIsDispatched ==
    (Validated /\ verdict.valid) =>
        \A t \in Transcripts :
            DispatchedShape(candidate, t) = ValidatedShape(candidate)

\* C26: with overlap < chunk_size, _chunk_transcript never emits a chunk
\* whose character range is contained in the range of the chunk before it:
\* every chunk after the first covers at least one character beyond the end
\* of its predecessor.
C26_ChunkReachesBeyondPredecessor ==
    ck_overlap < ck_size =>
        \A i \in 2..Len(ck_chunks) : ck_chunks[i].hi > ck_chunks[i - 1].hi

(***************************************************************************)
(* The text of a chunk that a scoring request carries                      *)
(***************************************************************************)
\* chunk[:3000] in the prompt of _evaluate_single_category_in_chunk
CategoryChunkExcerpt == 3000

\* The part of the chunk written into the prompt: the both-axes path writes
\* chunk[:3000] (line 1737), the chunk-only and flat chunked paths write the
\* chunk itself (lines 1865 and 1316).
RequestRange(p, chunk) ==
    IF p = "both"
    THEN [lo |-> chunk.lo, hi |-> Min2(chunk.hi, chunk.lo + CategoryChunkExcerpt)]
    ELSE chunk

\* The ranges of the transcript carried by the requests sent so far.
RequestedRanges ==
    { RequestRange(path, chunks[unit_log[i].chunk]) :
        i \in { j \in DOMAIN unit_log :
                  unit_log[j].called /\ unit_log[j].chunk \in DOMAIN chunks } }

Requested(i) == \E g \in RequestedRanges : g.lo <= i /\ i < g.hi

\* Every character of [lo, hi) is carried by some request: lo is, and so is
\* every character of the interval at which a requested range ends.
AllRequested(lo, hi) ==
    /\ Requested(lo)
    /\ \A g \in RequestedRanges : (lo <= g.hi /\ g.hi < hi) => Requested(g.hi)

ChunkedPaths == {"flat_chunked", "chunk_only", "both"}

\* C27: on every path that chunks the transcript each chunk is passed to
\* the scorer in full, so that every non-whitespace character of a
\* transcript longer than 4000 characters is included in at least one
\* scoring request of an evaluation that returns.
C27_ChunksSentInFull ==
    (pc # "idle" /\ path \in ChunkedPaths /\ llm) =>
        /\ \A i \in DOMAIN unit_log :
              (unit_log[i].called /\ unit_log[i].chunk \in DOMAIN chunks) =>
                  RequestRange(path, chunks[unit_log[i].chunk])
                      = chunks[unit_log[i].chunk]
        /\ Done =>
              \A k \in DOMAIN transcript :
                  ~IsSpace(transcript[k].ch) =>
                      AllRequested(RunStart(transcript, k),
                                   RunStart(transcript, k) + transcript[k].n)

\* The sum of the 'score' fields of a scores map whose scores are integers.
ScoreSum(items) == SumFn([id \in DOMAIN items |-> items[id].score.n])

\* C28: for every accepted rubric and on every hierarchical path,
\* overall.total_points equals the sum of the 'score' fields of the entries
\* of the result's scores map, each criterion counted once, also when the
\* same criterion_id occurs in two categories.
C28_TotalIsSumOfScores ==
    (Done /\ IsNewFormat(rubric)) =>
        /\ "scores" \in DOMAIN result
        /\ HasOverall({"total_points"})
        /\ \A id \in DOMAIN result.scores :
              "score" \in DOMAIN result.scores[id] /\ IsInt(result.scores[id].score)
        /\ result.overall.total_points = ScoreSum(result.scores)

(***************************************************************************)
(* generate_qualitative_feedback on the segments of a transcription        *)
(***************************************************************************)
\* transcribe_with_timestamps writes 'avg_logprob': seg.get('avg_logprob')
\* into every segment (lines 870-889): the key is always present, its value
\* is the transcriber's number or None.
SegmentLogprobs == {PyNone, IntNum(-2), IntNum(-1), IntNum(0)}

Segment(start, avg_logprob) ==
    [start |-> start, text |-> <<"text">>, avg_logprob |-> avg_logprob]

MaxSegments == 4

SegmentLists ==
    UNION { { [i \in 1..k |-> Segment(i - 1, f[i])] : f \in [1..k -> SegmentLogprobs] } :
              k \in 0..MaxSegments }

InitSegments ==
    /\ EvalIdle
    /\ ValidatorIdle /\ ChunkerIdle /\ AggregatorIdle /\ ListerIdle
    /\ fb_rubric = FlatRubric
    /\ fb_items \in { items \in ScoreItems(FlatRubric) :
                        \A i \in DOMAIN items : items[i][2].score = IntNum(5) }
    /\ fb_status \in {"pass", "fail"}
    /\ fb_llm \in BOOLEAN
    /\ fb_feedback = NoResult
    /\ fb_segments \in SegmentLists
    /\ fb_cited = <<>>

SpecSegments == InitSegments /\ [][NextFeedback]_vars

\* The prompt never lists more than three segments, each of them below the
\* threshold.
CitesAtMostThree ==
    /\ Len(fb_cited) <= 3
    /\ \A i \in DOMAIN fb_cited : LowConfidence(fb_cited[i])

\* C29: generate_qualitative_feedback returns a feedback object without
\* raising for every segments list transcribe_with_timestamps can produce,
\* segments whose avg_logprob is None included, and cites at most 3
\* low-confidence segments.
C29_FeedbackForEverySegmentsList ==
    fb_feedback # NoResult =>
        /\ "raised" \notin DOMAIN fb_feedback
        /\ {"strengths", "improvements", "tone"} \subseteq DOMAIN fb_feedback
        /\ CitesAtMostThree

(***************************************************************************)
(* list_available_rubrics                                                  *)
(***************************************************************************)
\* A rubric file: its stem, the 'name' of its rubric (NoName when the
\* rubric has none), and whether it is valid with status 'current'.
NoName == <<>>

SampleName == <<"Sample Rubric">>

RubricFile(stem, name, current) == [stem |-> stem, name |-> name, current |-> current]

RubricFiles ==
    { RubricFile(stem, name, current) :
        stem \in {"demo", "sample-rubric"}, name \in {SampleName, NoName},
        current \in BOOLEAN }

MaxFiles == 3

\* Files of different sub-directories may share a stem.
FileLists == UNION { [1..k -> RubricFiles] : k \in 0..MaxFiles }

\* The entry appended for a listed file (lines 317-321).
ListEntry(file) ==
    [filename |-> file.stem,
     name |-> IF file.name = NoName THEN <<file.stem>> ELSE file.name]

\* available after the loop over the files (lines 308-324)
RECURSIVE AvailableOf(_)
AvailableOf(files) ==
    IF files = <<>> THEN <<>>
    ELSE IF Head(files).current
         THEN <<ListEntry(Head(files))>> \o AvailableOf(Tail(files))
         ELSE AvailableOf(Tail(files))

\* f"{original_name} ({rubric['filename']})"
RenamedWithStem(original_name, filename) == original_name \o <<" (", filename, ")">>

SampleEntry == [filename |-> "sample-rubric", name |-> SampleName]

\* lines 337-342
WithSample(available) ==
    IF \E i \in DOMAIN available : available[i].filename = "sample-rubric"
    THEN available
    ELSE <<SampleEntry>> \o available

MaxRenames == 3

\* list_available_rubrics() is called and reads the rubric files
ListFiles ==
    /\ ls_pc = "idle"
    /\ \E files \in FileLists :
          /\ ls_files' = files
          /\ ls_available' = AvailableOf(files)
    /\ ls_seen' = {}
    /\ ls_i' = 1
    /\ ls_pc' = "for"
    /\ UNCHANGED <<ls_original, ls_counter>>
    /\ UNCHANGED not_lister_vars

\* for rubric in available: original_name = rubric['name']; counter = 1
NextRubric ==
    /\ ls_pc = "for"
    /\ ls_i <= Len(ls_available)
    /\ ls_original' = ls_available[ls_i].name
    /\ ls_counter' = 1
    /\ ls_pc' = "while"
    /\ UNCHANGED <<ls_files, ls_available, ls_i, ls_seen>>
    /\ UNCHANGED not_lister_vars

\* one iteration of `while rubric['name'] in seen_names` (lines 331-333)
RenameRubric ==
    /\ ls_pc = "while"
    /\ ls_available[ls_i].name \in ls_seen
    /\ ls_counter <= MaxRenames
    /\ ls_available' = [ls_available EXCEPT
                          ![ls_i].name = RenamedWithStem(ls_original,
                                                         ls_available[ls_i].filename)]
    /\ ls_counter' = ls_counter + 1
    /\ UNCHANGED <<ls_files, ls_i, ls_original, ls_seen, ls_pc>>
    /\ UNCHANGED not_lister_vars

\* seen_names.add(rubric['name']) once the name is not in seen_names
AddSeenName ==
    /\ ls_pc = "while"
    /\ ls_available[ls_i].name \notin ls_seen
    /\ ls_seen' = ls_seen \cup {ls_available[ls_i].name}
    /\ ls_i' = ls_i + 1
    /\ ls_pc' = "for"
    /\ UNCHANGED <<ls_files, ls_available, ls_original, ls_counter>>
    /\ UNCHANGED not_lister_vars

\* after the loop: the sample rubric is inserted if absent; return available
ReturnAvailable ==
    /\ ls_pc = "for"
    /\ ls_i > Len(ls_available)
    /\ ls_available' = WithSample(ls_available)
    /\ ls_pc' = "done"
    /\ UNCHANGED <<ls_files, ls_i, ls_original, ls_counter, ls_seen>>
    /\ UNCHANGED not_lister_vars

InitList ==
    /\ EvalIdle
    /\ ValidatorIdle /\ ChunkerIdle /\ AggregatorIdle /\ FeedbackIdle
    /\ ListerIdle

NextList == ListFiles \/ NextRubric \/ RenameRubric \/ AddSeenName \/ ReturnAvailable

SpecList == InitList /\ [][NextList]_vars

\* The call runs until it returns: nothing else is scheduled in it.
FairSpecList == SpecList /\ WF_vars(NextList)

NamesDistinct(available) ==
    \A i, j \in DOMAIN available : available[i].name = available[j].name => i = j

\* C30: list_available_rubrics terminates for every set of rubric files and
\* the 'name' values of the entries it returns are pairwise distinct, also
\* when three or more current rubric files of different sub-directories
\* share the display name and the file stem.
C30_ListTerminatesWithDistinctNames ==
    /\ <>(ls_pc = "done")
    /\ [](ls_pc = "done" => NamesDistinct(ls_available))

=============================================================================
